---------------------------- MODULE Spec2Model ----------------------------
(***************************************************************************)
(* A model of loadout: the skill discovery engine (src/src/discovery.ts),  *)
(* the resource resolver (resources.ts, kept as src/unnamed/part_002) and  *)
(* the script sandbox (tools.ts, kept inside src/src/index.ts).            *)
(*                                                                         *)
(* Conventions.  A path is a sequence of segments: <<"custom","a","SKILL.md">>*)
(* stands for custom/a/SKILL.md.  An optional value (T | undefined, T |    *)
(* null) is a sequence of length at most one: <<>> is absent, <<v>> is v.  *)
(* A JavaScript Map is a sequence of [key, value] entries in insertion     *)
(* order, which is the order Map.entries() iterates in.                    *)
(***************************************************************************)
EXTENDS Integers, Sequences, FiniteSets, TLC

VARIABLES
    roots,      \* what every search path is on the file system
    disk,       \* the manifest file of every candidate directory: <<>> or <<content>>
    skills,     \* SkillDiscovery.skills: the registry Map
    watcher,    \* SkillDiscovery.watcher: TRUE when an FSWatcher is held
    watchers,   \* the FSWatchers created and not closed, each with its handlers
    events,     \* file events chokidar has detected and not yet delivered
    inflight,   \* add/change handlers awaiting discoverSkillFromPath's result
    scanning,   \* <<>> or <<i>>: scan() is about to visit candidate i
    emitted,    \* the notifications the last step emitted, in order
    diskOps,    \* number of disk changes so far (bounded)
    scanDisturbed, \* the scan in progress overlapped a disk change or a handler
    quietScans, \* scans completed back to back with nothing in between (0..2)
    scanSnap,   \* <<registry>> as the first of those quiet scans left it
    allowScripts, \* the allowScripts option getToolHandlers was given
    runs,       \* the run_skill_script calls: request, child process, timers, result
    lastRead,   \* <<>> or <<the last readResource call: its URI and outcome>>
    lastCall    \* <<>> or <<the last call of a read-only tool or accessor>>

vars == <<roots, disk, skills, watcher, watchers, events, inflight, scanning, emitted,
          diskOps, scanDisturbed, quietScans, scanSnap, allowScripts, runs,
          lastRead, lastCall>>

\* What the discovery engine owns, and what the script sandbox owns.
discoveryVars == <<roots, disk, skills, watcher, watchers, events, inflight, scanning, emitted,
                   diskOps, scanDisturbed, quietScans, scanSnap>>

sandboxVars == <<allowScripts, runs>>

resourceVars == <<lastRead, lastCall>>

---------------------------------------------------------------------------
(* Bounds of the model *)

\* Disk changes the environment makes in one behaviour.  Every file event and
\* every pending handler stems from one of them, so this bounds those too.
MaxDiskOps == 2

---------------------------------------------------------------------------
(* Optional values *)

None == <<>>

Some(v) == <<v>>

---------------------------------------------------------------------------
(* Paths (node:path join and dirname on segment sequences) *)

RECURSIVE Normalize(_, _)
\* path.normalize on the segments still to read, `acc` being the segments kept:
\* "." is dropped and ".." removes the segment before it.
Normalize(acc, rest) ==
    IF rest = <<>> THEN acc
    ELSE IF Head(rest) = "." THEN Normalize(acc, Tail(rest))
    ELSE IF Head(rest) = ".."
         THEN IF acc # <<>> /\ acc[Len(acc)] # ".."
                 THEN Normalize(SubSeq(acc, 1, Len(acc) - 1), Tail(rest))
                 ELSE Normalize(Append(acc, ".."), Tail(rest))
    ELSE Normalize(Append(acc, Head(rest)), Tail(rest))

\* path.join(a, b): concatenate, then normalize.
Join(a, b) == Normalize(<<>>, a \o b)

\* path.dirname
Dirname(p) == SubSeq(p, 1, Len(p) - 1)

IsPrefix(p, q) == Len(p) <= Len(q) /\ SubSeq(q, 1, Len(p)) = p

---------------------------------------------------------------------------
(* The search roots and the candidate directories under them *)

\* The default search paths the constructor builds.
DefaultPaths == << <<"project">> >>

\* The customPaths argument (--skills-dir).
CustomPaths == << <<"custom">> >>

\* this.searchPaths after the constructor: the defaults, then push(...customPaths).
SearchPaths == DefaultPaths \o CustomPaths

\* getSearchPaths(): a copy of the list.
getSearchPaths == SearchPaths

\* The search paths as a set.
SearchRoots == {SearchPaths[r] : r \in 1..Len(SearchPaths)}

\* What a search path may be on the file system: a directory that can be
\* listed, nothing at all, a regular file, or a directory that readdir is
\* denied on.
RootKinds == {"dir", "missing", "file", "unreadable"}

\* Every search path is a directory that can be listed.
AllDirectories == [p \in SearchRoots |-> "dir"]

directoryExistsWhateverIsThere(dirPath) == TRUE

\* directoryExists: access and stat succeed and isDirectory() is true.
directoryExists(dirPath) == roots[dirPath] \in {"dir", "unreadable"}

\* readdir(searchPath) throws (ENOENT, ENOTDIR or EACCES).
ReaddirThrows(searchPath) == roots[searchPath] # "dir"

\* The skill directories that may exist under a search root, in readdir order.
DirsOf(root) == IF root = <<"project">> THEN <<"a">> ELSE <<"a", "b">>

RECURSIVE ManifestsUnder(_, _)
\* join(searchPath, entry.name, 'SKILL.md') for the entries of one root from
\* the k-th on, in readdir order.
ManifestsUnder(root, k) ==
    IF k > Len(DirsOf(root)) THEN <<>>
    ELSE <<Join(root, <<DirsOf(root)[k], "SKILL.md">>)>> \o ManifestsUnder(root, k + 1)

RECURSIVE CandidatesFrom(_)
\* The candidate manifests of the search paths from the r-th on.
CandidatesFrom(r) ==
    IF r > Len(SearchPaths) THEN <<>>
    ELSE ManifestsUnder(SearchPaths[r], 1) \o CandidatesFrom(r + 1)

\* The candidate manifests in the order scan() visits them: search path by
\* search path, and within one in readdir order.
Candidates == CandidatesFrom(1)

ManifestPaths == {Candidates[i] : i \in 1..Len(Candidates)}

\* The search path a candidate manifest was joined from.
SearchPathOf(skillMdPath) == Dirname(Dirname(skillMdPath))

\* The first candidate of the search path after the one candidate i is
\* under, if there is one.
AfterSearchPath(i) ==
    LET later == {k \in (i + 1)..Len(Candidates) :
                     SearchPathOf(Candidates[k]) # SearchPathOf(Candidates[i])}
    IN  IF later = {} THEN None
        ELSE Some(CHOOSE k \in later : \A j \in later : k <= j)

\* Manifest texts: the frontmatter name and description (absent or a string).
Contents ==
    { [name |-> None,        description |-> Some("d1")],
      [name |-> Some(""),    description |-> Some("d1")],
      [name |-> Some("foo"), description |-> Some("d1")],
      [name |-> Some("foo"), description |-> Some("d2")],
      [name |-> Some("bar"), description |-> Some("d1")] }

---------------------------------------------------------------------------
(* The parser (src/src/parser.ts) *)

\* data.x ?? ''
OrEmpty(opt) == IF opt = None THEN "" ELSE opt[1]

\* A markdown body is the sequence of its lines, body.split('\n').  The lines
\* the bodies of the model are made of: two ATX headings, a paragraph line, a
\* blank line, a code fence with and without a language, a line of code, and
\* a long line.
LongLineLength == 99

LongLine == "x...x"

BodyLines == {"# A", "## B", "text", "", "~~~", LongLine}

MaxBodyLines == 4

\* The characters of a line; a long line is LongLineLength times the letter x.
Chars(l) ==
    CASE l = "# A"     -> <<"#", " ", "A">>
      [] l = "## B"    -> <<"#", "#", " ", "B">>
      [] l = "# Usage" -> <<"#", " ", "U", "s", "a", "g", "e">>
      [] l = "# A-1"   -> <<"#", " ", "A", "-", "1">>
      [] l = "# !"     -> <<"#", " ", "!">>
      [] l = "text"    -> <<"t", "e", "x", "t">>
      [] l = "ls"      -> <<"l", "s">>
      [] l = ""        -> <<>>
      [] l = "~~~"     -> <<"~", "~", "~">>
      [] l = "~~~bash" -> <<"~", "~", "~", "b", "a", "s", "h">>
      [] l = LongLine  -> [i \in 1..LongLineLength |-> "x"]

\* heading.depth of a line that is an ATX heading, 0 for any other line.
HeadingDepth(l) ==
    CASE l \in {"# A", "# Usage", "# A-1", "# !"} -> 1
      [] l = "## B" -> 2
      [] OTHER -> 0

\* The slug of a heading's text before the slugger makes it unique: the text
\* in small letters, without punctuation, with spaces turned to hyphens.
BaseSlug(l) ==
    CASE l = "# A" -> "a"
      [] l = "## B" -> "b"
      [] l = "# Usage" -> "usage"
      [] l = "# A-1" -> "a-1"
      [] l = "# !" -> ""

\* originalSlug + '-' + k, and originalSlug itself for k = 0.
Slug(base, k) ==
    CASE base = "a"     -> <<"a", "a-1", "a-2", "a-3", "a-4", "a-5", "a-6">>[k + 1]
      [] base = "b"     -> <<"b", "b-1", "b-2", "b-3", "b-4", "b-5", "b-6">>[k + 1]
      [] base = "usage" -> <<"usage", "usage-1">>[k + 1]
      [] base = "a-1"   -> <<"a-1", "a-1-1", "a-1-2", "a-1-3", "a-1-4", "a-1-5",
                             "a-1-6">>[k + 1]
      [] base = ""      -> <<"", "-1", "-2", "-3", "-4", "-5", "-6">>[k + 1]

\* The slugger's occurrences object with key set to value.
OccurrencesSet(occurrences, key, value) ==
    [s \in DOMAIN occurrences \cup {key} |-> IF s = key THEN value ELSE occurrences[s]]

RECURSIVE SlugOrNextFree(_, _, _)
\* GithubSlugger.slug from its loop on: while the result is a key of
\* occurrences, the count of the original slug is raised and appended to it;
\* the result is then recorded with count 0.
SlugOrNextFree(occurrences, originalSlug, result) ==
    IF result \notin DOMAIN occurrences
    THEN [result |-> result, occurrences |-> OccurrencesSet(occurrences, result, 0)]
    ELSE LET raised == OccurrencesSet(occurrences, originalSlug,
                                      occurrences[originalSlug] + 1)
         IN  SlugOrNextFree(raised, originalSlug,
                            Slug(originalSlug, raised[originalSlug]))

\* A line that opens a fenced code block, and code.lang of the block.
IsFence(l) == l \in {"~~~", "~~~bash"}

FenceLang(l) == IF l = "~~~bash" THEN Some("bash") ELSE None

RECURSIVE OpenFence(_, _)
\* The line of the fence that is open after lines 1..i of the body, 0 when
\* none is: a fence opens a block, the next bare fence closes it, and a block
\* never closed runs to the end of the body.
OpenFence(body, i) ==
    IF i = 0 THEN 0
    ELSE LET before == OpenFence(body, i - 1)
         IN  IF before = 0
             THEN IF IsFence(body[i]) THEN i ELSE 0
             ELSE IF body[i] = "~~~" THEN 0 ELSE before

\* Line i is a heading node of the tree: an ATX heading outside code.
IsHeading(body, i) == HeadingDepth(body[i]) > 0 /\ OpenFence(body, i - 1) = 0

RECURSIVE SluggerAfter(_, _)
\* The slugger's occurrences after the headings of lines 1..i.
SluggerAfter(body, i) ==
    IF i = 0 THEN <<>>
    ELSE IF IsHeading(body, i)
    THEN SlugOrNextFree(SluggerAfter(body, i - 1),
                        BaseSlug(body[i]), BaseSlug(body[i])).occurrences
    ELSE SluggerAfter(body, i - 1)

\* slugger.slug(text) for the heading of line i.
SluggerSlug(body, i) ==
    SlugOrNextFree(SluggerAfter(body, i - 1), BaseSlug(body[i]), BaseSlug(body[i])).result

RECURSIVE TocFrom(_, _)
\* toc.push({level, text, slug, line}) for the headings from line i on, in
\* the order visit() meets them.
TocFrom(body, i) ==
    IF i > Len(body) THEN <<>>
    ELSE IF IsHeading(body, i)
    THEN <<[level |-> HeadingDepth(body[i]),
            slug |-> SluggerSlug(body, i),
            line |-> i]>> \o TocFrom(body, i + 1)
    ELSE TocFrom(body, i + 1)

RECURSIVE JoinLines(_)
\* lines.join('\n') as characters.
JoinLines(lines) ==
    IF lines = <<>> THEN <<>>
    ELSE IF Len(lines) = 1 THEN Chars(lines[1])
    ELSE Chars(lines[1]) \o <<"\n">> \o JoinLines(Tail(lines))

\* The line that closes the block a fence opens at line i: the first bare
\* fence after it, or the line after the last.
FenceEnd(body, i) ==
    IF \E j \in (i + 1)..Len(body) : OpenFence(body, j) = 0
    THEN CHOOSE j \in (i + 1)..Len(body) :
            /\ OpenFence(body, j) = 0
            /\ \A k \in (i + 1)..(j - 1) : OpenFence(body, k) # 0
    ELSE Len(body) + 1

RECURSIVE CodeBlocksFrom(_, _)
\* codeBlocks.push({lang, line, content}) for the code nodes from line i on.
CodeBlocksFrom(body, i) ==
    IF i > Len(body) THEN <<>>
    ELSE IF OpenFence(body, i) = i
    THEN <<[lang |-> FenceLang(body[i]),
            line |-> i,
            content |-> JoinLines(SubSeq(body, i + 1, FenceEnd(body, i) - 1))]>>
         \o CodeBlocksFrom(body, i + 1)
    ELSE CodeBlocksFrom(body, i + 1)

\* The body of a manifest text that does not say otherwise: one heading and
\* one code block.
DefaultBody == <<"# Usage", "~~~bash", "ls", "~~~">>

BodyToc == TocFrom(DefaultBody, 1)

BodyCodeBlocks == CodeBlocksFrom(DefaultBody, 1)

HasBody(content) == "body" \in DOMAIN content

\* parseSkillMd: the frontmatter with name and description defaulted to '',
\* the body, the table of contents and the code blocks.
parseSkillMd(content) ==
    [frontmatter |-> [name |-> OrEmpty(content.name),
                      description |-> OrEmpty(content.description)],
     body |-> IF HasBody(content) THEN content.body ELSE DefaultBody,
     toc |-> IF HasBody(content) THEN TocFrom(content.body, 1) ELSE BodyToc,
     codeBlocks |-> IF HasBody(content) THEN CodeBlocksFrom(content.body, 1)
                    ELSE BodyCodeBlocks,
     files |-> [scripts |-> <<>>, references |-> <<>>, assets |-> <<>>]]

\* block.content.slice(0, 100)
PreviewLength == 100

PreviewWholeContent(content) == content

Preview(content) ==
    SubSeq(content, 1, IF Len(content) < PreviewLength THEN Len(content) ELSE PreviewLength)

\* createManifest(parsed)
createManifest(parsed) ==
    [name |-> parsed.frontmatter.name,
     description |-> parsed.frontmatter.description,
     toc |-> parsed.toc,
     codeBlocks |-> [i \in 1..Len(parsed.codeBlocks) |->
                        [lang |-> parsed.codeBlocks[i].lang,
                         line |-> parsed.codeBlocks[i].line,
                         preview |-> Preview(parsed.codeBlocks[i].content)]],
     files |-> parsed.files]

\* The script files on disk.
ScriptFiles == { <<"custom", "b", "scripts", "helper.sh">> }

\* The files in the skill directories besides the manifests.
ResourceFiles ==
    ScriptFiles \cup
    { <<"custom", "b", "references", "api.md">>,
      <<"custom", "b", "references", "nested", "deep.md">> }

\* The names readdir may return, in the order it returns them.
ReaddirOrder == <<"api.md", "helper.sh", "nested">>

\* readdir(dirPath) without the names that begin with a dot (there are none):
\* the files and directories directly in dirPath; <<>> too when stat(dirPath)
\* throws because there is no such directory.
Readdir(dirPath) ==
    SelectSeq(ReaddirOrder,
              LAMBDA n : \E p \in ResourceFiles : IsPrefix(dirPath \o <<n>>, p))

\* listSkillFiles(skillDir)
listSkillFiles(skillDir) ==
    [scripts |-> Readdir(Join(skillDir, <<"scripts">>)),
     references |-> Readdir(Join(skillDir, <<"references">>)),
     assets |-> Readdir(Join(skillDir, <<"assets">>))]

---------------------------------------------------------------------------
(* The registry Map *)

MapHas(m, k) == \E i \in 1..Len(m) : m[i].key = k

\* Map.get: <<>> for undefined.
MapGet(m, k) ==
    IF MapHas(m, k)
    THEN Some(m[CHOOSE i \in 1..Len(m) : m[i].key = k].value)
    ELSE None

\* Map.set: an existing key keeps its place, a new key goes last.
MapSet(m, k, v) ==
    IF MapHas(m, k)
    THEN [i \in 1..Len(m) |-> IF m[i].key = k THEN [key |-> k, value |-> v] ELSE m[i]]
    ELSE Append(m, [key |-> k, value |-> v])

\* Map.delete
MapDelete(m, k) == SelectSeq(m, LAMBDA e : e.key # k)

\* getSkill(name)
getSkill(name) == MapGet(skills, name)

\* getAllSkills(): the values in insertion order.
getAllSkills == [i \in 1..Len(skills) |-> skills[i].value]

SeqSet(s) == {s[i] : i \in 1..Len(s)}

---------------------------------------------------------------------------
(* discoverSkillFromPath *)

\* A manifest text whose frontmatter is not valid YAML: matter() throws on it.
BadYaml == [yaml |-> "invalid"]

\* parseSkillFile(filePath) throws: the file cannot be read, or parseSkillMd
\* throws on its text.
ParseThrows(filePath) ==
    \/ disk[filePath] = None
    \/ disk[filePath][1] = BadYaml

SkillDirIsTheManifest(skillMdPath) == skillMdPath

\* const skillDir = dirname(skillMdPath)
SkillDir(skillMdPath) == Dirname(skillMdPath)

\* The DiscoveredSkill built from the manifest at skillMdPath, read now; <<>>
\* (null, after an 'error' event) when parseSkillFile throws.
discoverSkillFromPath(skillMdPath) ==
    IF ParseThrows(skillMdPath) THEN None
    ELSE LET parsed == [parseSkillMd(disk[skillMdPath][1])
                           EXCEPT !.files = listSkillFiles(SkillDir(skillMdPath))]
         IN  Some([name |-> parsed.frontmatter.name,
                   description |-> parsed.frontmatter.description,
                   path |-> SkillDir(skillMdPath),
                   skillMdPath |-> skillMdPath,
                   parsed |-> Some(parsed)])

\* The 'error' notification discoverSkillFromPath emits when it returns null.
DiscoverErrors(skillMdPath) ==
    IF ParseThrows(skillMdPath) THEN <<[type |-> "error"]>> ELSE <<>>

RegistrableAnyName(found) == found # None

\* if (skill && skill.name)
Registrable(found) == found # None /\ found[1].name # ""

---------------------------------------------------------------------------
(* Bookkeeping shared by the actions *)

\* A step that changes the disk or runs a watch handler: it ends any run of
\* back-to-back scans and marks the scan in progress.
Disturb ==
    /\ scanDisturbed' = (scanning # None)
    /\ quietScans' = 0
    /\ scanSnap' = None

Undisturbed == UNCHANGED <<scanDisturbed, quietScans, scanSnap>>

\* Every FSWatcher that is open queues the event for its handlers.
Notify(kind, file) ==
    events \o [w \in 1..watchers |-> [kind |-> kind, file |-> file]]

---------------------------------------------------------------------------
(* The environment: files are written and deleted *)

\* The manifests the environment writes and deletes; custom/b/SKILL.md stays
\* as it is on the initial disk.
EditedPaths == ManifestPaths \ { <<"custom", "b", "SKILL.md">> }

WriteManifest(f, c) ==
    /\ UNCHANGED <<sandboxVars, resourceVars>>
    /\ diskOps < MaxDiskOps
    /\ roots[SearchPathOf(f)] = "dir"
    /\ disk[f] # Some(c)
    /\ disk' = [disk EXCEPT ![f] = Some(c)]
    /\ events' = Notify(IF disk[f] = None THEN "add" ELSE "change", f)
    /\ diskOps' = diskOps + 1
    /\ emitted' = <<>>
    /\ Disturb
    /\ UNCHANGED <<roots, skills, watcher, watchers, inflight, scanning>>

DeleteManifest(f) ==
    /\ UNCHANGED <<sandboxVars, resourceVars>>
    /\ diskOps < MaxDiskOps
    /\ disk[f] # None
    /\ disk' = [disk EXCEPT ![f] = None]
    /\ events' = Notify("unlink", f)
    /\ diskOps' = diskOps + 1
    /\ emitted' = <<>>
    /\ Disturb
    /\ UNCHANGED <<roots, skills, watcher, watchers, inflight, scanning>>

---------------------------------------------------------------------------
(* scan() *)

\* scan() is called: it will visit the first candidate of the first search path.
ScanStart ==
    /\ UNCHANGED <<sandboxVars, resourceVars>>
    /\ scanning = None
    /\ scanning' = Some(1)
    /\ scanDisturbed' = FALSE
    /\ emitted' = <<>>
    /\ UNCHANGED <<roots, disk, skills, watcher, watchers, events, inflight, diskOps,
                   quietScans, scanSnap>>

ScanRegisterDropDuplicate(reg, skill) ==
    IF MapHas(reg, skill.name) THEN MapDelete(reg, skill.name)
    ELSE MapSet(reg, skill.name, skill)

ScanRegisterKeepFirst(reg, skill) ==
    IF MapHas(reg, skill.name) THEN reg ELSE MapSet(reg, skill.name, skill)

ScanRegisterAfterClear(reg, skill) == MapSet(<<>>, skill.name, skill)

\* this.skills.set(skill.name, skill) in scanPath
ScanRegister(reg, skill) == MapSet(reg, skill.name, skill)

ScanNextStopOnFailure(i, found) ==
    IF i = Len(Candidates) \/ found = None THEN None ELSE Some(i + 1)

\* Where scan() goes after candidate i, whatever discoverSkillFromPath gave:
\* to the next directory entry or search path, or to its end (<<>>).
ScanNext(i, found) == IF i = Len(Candidates) THEN None ELSE Some(i + 1)

\* One turn of scan(): at the first candidate of a search path scanPath
\* returns at once when directoryExists is false, and emits 'error' when
\* readdir throws; either way scan() goes on with the next search path.
\* Otherwise one turn of scanPath's loop: a directory without SKILL.md is
\* skipped silently (access throws into the empty catch); otherwise the skill
\* discoverSkillFromPath gives is registered when it has a name, and a
\* failure in it is an 'error' event.  After the last candidate of the last
\* search path scan() resolves.
ScanCandidate ==
    /\ UNCHANGED <<sandboxVars, resourceVars>>
    /\ scanning # None
    /\ LET skillMdPath == Candidates[scanning[1]]
           searchPath == SearchPathOf(skillMdPath)
           skipped == ~directoryExists(searchPath)
           unlisted == ~skipped /\ ReaddirThrows(searchPath)
           found == IF disk[skillMdPath] = None THEN None
                    ELSE discoverSkillFromPath(skillMdPath)
           next == IF skipped \/ unlisted THEN AfterSearchPath(scanning[1])
                   ELSE ScanNext(scanning[1], found)
           last == next = None
           reg == IF skipped \/ unlisted THEN skills
                  ELSE IF Registrable(found) THEN ScanRegister(skills, found[1])
                  ELSE skills
       IN  /\ skills' = reg
           /\ emitted' = IF skipped THEN <<>>
                         ELSE IF unlisted THEN <<[type |-> "error"]>>
                         ELSE IF disk[skillMdPath] = None THEN <<>>
                         ELSE IF Registrable(found)
                         THEN <<[type |-> "skill:discovered", skill |-> found[1]]>>
                         ELSE DiscoverErrors(skillMdPath)
           /\ scanning' = next
           /\ scanDisturbed' = IF last THEN FALSE ELSE scanDisturbed
           /\ quietScans' = IF ~last THEN quietScans
                            ELSE IF scanDisturbed THEN 0
                            ELSE IF quietScans < 2 THEN quietScans + 1 ELSE 2
           /\ scanSnap' = IF ~last THEN scanSnap
                          ELSE IF scanDisturbed THEN None
                          ELSE IF quietScans = 0 THEN Some(reg) ELSE scanSnap
    /\ UNCHANGED <<roots, disk, watcher, watchers, events, inflight, diskOps>>

---------------------------------------------------------------------------
(* watch() and close() *)

AlreadyWatchingIgnored == FALSE

\* if (this.watcher) return;
AlreadyWatching == watcher

\* watch(): unless a watcher is held, one is created with its four handlers.
WatchCall ==
    /\ UNCHANGED sandboxVars
    /\ IF AlreadyWatching
       THEN UNCHANGED <<watcher, watchers>>
       ELSE watcher' = TRUE /\ watchers' = watchers + 1
    /\ emitted' = <<>>
    /\ UNCHANGED <<roots, disk, skills, events, inflight, scanning, diskOps>>
    /\ Undisturbed

Watch == WatchCall /\ UNCHANGED resourceVars

ReleasedForgotten == TRUE

\* this.watcher = null: whether a watcher is held after close() closed one.
Released == FALSE

\* close(): the watcher held, if any, is closed, so undelivered events are
\* dropped, and the field is set to null; handlers already awaiting a parse
\* are not cancelled.
CloseCall ==
    /\ UNCHANGED sandboxVars
    /\ watcher' = IF watcher THEN Released ELSE watcher
    /\ watchers' = IF watcher THEN watchers - 1 ELSE watchers
    /\ events' = IF watcher THEN <<>> ELSE events
    /\ emitted' = <<>>
    /\ UNCHANGED <<roots, disk, skills, inflight, scanning, diskOps>>
    /\ Undisturbed

Close == CloseCall /\ UNCHANGED resourceVars

\* The call before this one, as the caller's log has it.
PreviousCall == IF lastCall = None THEN "none" ELSE lastCall[1].call

\* watch() and close() with the caller noting what it called, whether a
\* watcher was held then, and what it had called before.
WatchLogged ==
    /\ WatchCall
    /\ lastCall' = Some([call |-> "watch", held |-> watcher, previous |-> PreviousCall])
    /\ UNCHANGED lastRead

CloseLogged ==
    /\ CloseCall
    /\ lastCall' = Some([call |-> "close", held |-> watcher, previous |-> PreviousCall])
    /\ UNCHANGED lastRead

---------------------------------------------------------------------------
(* The watch handlers *)

RemoveAt(s, i) == SubSeq(s, 1, i - 1) \o SubSeq(s, i + 1, Len(s))

\* An 'add' or 'change' event is delivered: the handler calls
\* discoverSkillFromPath, which reads the file, and awaits the result.
HandlerBegin ==
    /\ UNCHANGED <<sandboxVars, resourceVars>>
    /\ events # <<>>
    /\ Head(events).kind \in {"add", "change"}
    /\ events' = Tail(events)
    /\ inflight' = Append(inflight,
                          [kind |-> Head(events).kind,
                           file |-> Head(events).file,
                           found |-> discoverSkillFromPath(Head(events).file)])
    /\ emitted' = DiscoverErrors(Head(events).file)
    /\ UNCHANGED <<roots, disk, skills, watcher, watchers, scanning, diskOps>>
    /\ Disturb

\* What the 'add' handler emits after its set().
AddEmits(skill, previous) ==
    IF previous # None
    THEN <<[type |-> "skill:updated", skill |-> skill, previous |-> previous]>>
    ELSE <<[type |-> "skill:discovered", skill |-> skill]>>

ChangeEmitsLikeAdd(skill, previous) == AddEmits(skill, previous)

\* What the 'change' handler emits after its set().
ChangeEmits(skill, previous) ==
    <<[type |-> "skill:updated", skill |-> skill, previous |-> previous]>>

\* The rest of an 'add' or 'change' handler, after the await.
HandlerFinish(i) ==
    /\ UNCHANGED <<sandboxVars, resourceVars>>
    /\ i \in 1..Len(inflight)
    /\ LET h == inflight[i]
       IN  IF Registrable(h.found)
           THEN LET skill == h.found[1]
                    previous == MapGet(skills, skill.name)
                IN  /\ skills' = MapSet(skills, skill.name, skill)
                    /\ emitted' = IF h.kind = "add"
                                  THEN AddEmits(skill, previous)
                                  ELSE ChangeEmits(skill, previous)
           ELSE /\ skills' = skills
                /\ emitted' = <<>>
    /\ inflight' = RemoveAt(inflight, i)
    /\ UNCHANGED <<roots, disk, watcher, watchers, events, scanning, diskOps>>
    /\ Disturb

\* The index of the first entry, in iteration order, registered from filePath.
FirstFrom(reg, filePath) ==
    CHOOSE i \in 1..Len(reg) :
        /\ reg[i].value.skillMdPath = filePath
        /\ \A j \in 1..(i - 1) : reg[j].value.skillMdPath # filePath

HasFrom(reg, filePath) == \E i \in 1..Len(reg) : reg[i].value.skillMdPath = filePath

\* The 'unlink' handler: the first entry whose skillMdPath is the deleted file
\* is removed and announced, then the loop breaks.
UnlinkHandler ==
    /\ UNCHANGED <<sandboxVars, resourceVars>>
    /\ events # <<>>
    /\ Head(events).kind = "unlink"
    /\ LET filePath == Head(events).file
       IN  IF HasFrom(skills, filePath)
           THEN LET name == skills[FirstFrom(skills, filePath)].key
                IN  /\ skills' = MapDelete(skills, name)
                    /\ emitted' = <<[type |-> "skill:removed", name |-> name,
                                     path |-> Dirname(filePath)]>>
           ELSE /\ skills' = skills
                /\ emitted' = <<>>
    /\ events' = Tail(events)
    /\ UNCHANGED <<roots, disk, watcher, watchers, inflight, scanning, diskOps>>
    /\ Disturb

---------------------------------------------------------------------------
(* The script sandbox: validateScriptPath *)

\* Script names a caller may pass: whether the string starts with '/', and its
\* segments between separators.
ScriptNames ==
    { [absolute |-> FALSE, segs |-> <<"helper.sh">>],
      [absolute |-> FALSE, segs |-> <<"utils", "helper.sh">>],
      [absolute |-> FALSE, segs |-> <<"..", "helper.sh">>],
      [absolute |-> FALSE, segs |-> <<"utils", "..", "helper.sh">>],
      [absolute |-> TRUE,  segs |-> <<"helper.sh">>],
      [absolute |-> FALSE, segs |-> <<"dir\\helper.sh">>],
      [absolute |-> FALSE, segs |-> <<"HELPER.SH">>],
      [absolute |-> FALSE, segs |-> <<"tool.exe">>],
      [absolute |-> FALSE, segs |-> <<"README">>],
      [absolute |-> FALSE, segs |-> <<"missing.sh">>] }


ALLOWED_EXTENSIONS == {".sh", ".js", ".ts", ".py"}

\* path.extname of one segment of the names above.
ExtName(seg) ==
    CASE seg \in {"helper.sh", "missing.sh", "dir\\helper.sh"} -> ".sh"
      [] seg = "HELPER.SH" -> ".SH"
      [] seg = "tool.exe" -> ".exe"
      [] OTHER -> ""

ToLowerCaseForgotten(ext) == ext

\* String.toLowerCase on the extensions above.
ToLowerCase(ext) == IF ext = ".SH" THEN ".sh" ELSE ext

\* seg.includes('..')
HasDotDot(seg) == seg = ".."

\* seg.includes('\\')
HasBackslash(seg) == seg = "dir\\helper.sh"

\* path.basename
Basename(name) == name.segs[Len(name.segs)]

\* The first check of validateScriptPath, on normalize(scriptName).
IsTraversal(name) ==
    LET normalizedScript == Normalize(<<>>, name.segs)
    IN  \/ \E i \in 1..Len(normalizedScript) : HasDotDot(normalizedScript[i])
        \/ name.absolute
        \/ \E i \in 1..Len(normalizedScript) : HasBackslash(normalizedScript[i])

ResolveWholeName(scriptsDir, scriptName) == Join(scriptsDir, scriptName.segs)

\* resolve(scriptsDir, basename(scriptName))
ResolveBasename(scriptsDir, scriptName) == Join(scriptsDir, <<Basename(scriptName)>>)

\* validateScriptPath(scriptName, skillPath)
validateScriptPath(scriptName, skillPath) ==
    LET ext == ToLowerCase(ExtName(Basename(scriptName)))
        scriptsDir == Join(skillPath, <<"scripts">>)
        fullPath == ResolveBasename(scriptsDir, scriptName)
    IN  IF IsTraversal(scriptName)
        THEN [valid |-> FALSE, error |-> "path traversal not allowed", fullPath |-> None]
        ELSE IF ext \notin ALLOWED_EXTENSIONS
        THEN [valid |-> FALSE, error |-> "Invalid script extension", fullPath |-> None]
        ELSE IF ~IsPrefix(scriptsDir, fullPath)
        THEN [valid |-> FALSE, error |-> "must be within scripts directory",
              fullPath |-> None]
        ELSE [valid |-> TRUE, error |-> "", fullPath |-> Some(fullPath)]

---------------------------------------------------------------------------
(* The script sandbox: one run_skill_script call and its child process *)

RunIds == {"r1", "r2"}

\* How the spawned child behaves.
\*   quick:     exits by itself with an exit code; SIGTERM ends it
\*   sleeper:   never exits by itself; SIGTERM ends it
\*   stubborn:  never exits by itself and ignores SIGTERM; SIGKILL ends it
\*   spawnfail: the interpreter cannot be started ('error' event)
\*   spawnthrow: spawn() itself throws (an error it does not turn into an
\*              'error' event, such as E2BIG for an oversized argument list)
ChildKinds == {"quick", "sleeper", "stubborn", "spawnfail", "spawnthrow"}

ExitCodes == {0, 1}

TimeoutMarker == "\n[Script execution timed out]"

\* err.message of the 'error' event of a failed spawn.
SpawnErrorMessage == "spawn bash ENOENT"

\* '\n[Script execution error: ' + err.message + ']', piece by piece.
ErrorMarker(message) == <<"\n[Script execution error: ", message, "]">>

IdleRun ==
    [ phase |-> "idle",        \* idle | spawned | done
      req |-> None,            \* the arguments of the call
      tool |-> None,           \* the ToolResult returned
      kind |-> "quick",
      child |-> "none",        \* none | failing | running | exited | closed
      code |-> None,           \* exit code; <<>> (null) after death by signal
      stderr |-> <<>>,         \* the stderr buffer, chunk by chunk
      killed |-> FALSE,        \* executeScript's local flag
      procKilled |-> FALSE,    \* proc.killed: a kill() has delivered a signal
      signals |-> <<>>,        \* the signals delivered to the child
      spawnTimer |-> "none",   \* the timer of spawn's timeout option
      timer |-> "none",        \* executeScript's timeout timer
      forceTimer |-> "none",   \* the 5000 ms timer armed by the timeout callback
      clock |-> "before",      \* before | expired (timeoutMs passed) | grace (5 s more)
      atExpiry |-> "pending",  \* the child as the timeout callback found it
      result |-> None,         \* what the promise resolved with
      rejected |-> FALSE,      \* the promise, and so the call, rejected
      scriptPath |-> None ]    \* validation.fullPath, once the name is accepted

errorResult(message) == [isError |-> TRUE, error |-> message]

successResult(data) == [isError |-> FALSE, data |-> data]

\* proc.kill(signal): the signal is delivered, and proc.killed set, only while
\* the process handle exists, that is until the exit has been reported.
Kill(run, signal) ==
    IF run.child = "running"
    THEN [run EXCEPT !.signals = Append(@, signal), !.procKilled = TRUE]
    ELSE run

\* resolve(value): only the first call settles the promise; run_skill_script
\* then returns the result as a successResult.
Resolve(run, value) ==
    IF run.result # None THEN run
    ELSE [run EXCEPT !.result = Some(value),
                     !.tool = Some(successResult(value)),
                     !.phase = "done"]

ClearTimeoutForgotten(run) == run

\* clearTimeout(timeout)
ClearTimeout(run) ==
    IF run.timer = "armed" THEN [run EXCEPT !.timer = "cleared"] ELSE run

SandboxOnly == UNCHANGED <<discoveryVars, resourceVars>>

ScriptsDisabledNever == FALSE

\* if (!allowScripts), the first statement of run_skill_script
ScriptsDisabled == ~allowScripts

\* run_skill_script(args): the checks in order, then executeScript up to the
\* point where the child is spawned and the timers are armed.
RunSkillScript(r, skillName, script, kind) ==
    /\ runs[r].phase = "idle"
    /\ LET skill == getSkill(skillName)
           validation == validateScriptPath(script, skill[1].path)
           called == [runs[r] EXCEPT !.req = Some([skill |-> skillName, script |-> script])]
           refused(message) ==
               [called EXCEPT !.phase = "done", !.tool = Some(errorResult(message))]
           accepted == [called EXCEPT !.scriptPath = validation.fullPath]
       IN  runs' = [runs EXCEPT ![r] =
             IF ScriptsDisabled THEN refused("Script execution is disabled")
             ELSE IF skill = None THEN refused("Skill not found")
             ELSE IF ~validation.valid THEN refused(validation.error)
             ELSE IF validation.fullPath[1] \notin ScriptFiles
             THEN [accepted EXCEPT !.phase = "done",
                                   !.tool = Some(errorResult("Script not found"))]
             ELSE IF kind = "spawnthrow"
             THEN [accepted EXCEPT !.phase = "done", !.kind = kind, !.rejected = TRUE]
             ELSE [accepted EXCEPT !.phase = "spawned",
                                 !.kind = kind,
                                 !.child = IF kind = "spawnfail" THEN "failing"
                                           ELSE "running",
                                 !.spawnTimer = "armed",
                                 !.timer = "armed"]]
    /\ UNCHANGED allowScripts
    /\ SandboxOnly

\* proc.stderr.on('data'): a chunk is appended to the buffer.
StderrData(r) ==
    /\ runs[r].child = "running"
    /\ runs[r].stderr = <<>>
    /\ runs' = [runs EXCEPT ![r].stderr = <<"chunk">>]
    /\ UNCHANGED allowScripts
    /\ SandboxOnly

\* No callback runs between the two timeout callbacks: both timers are set in
\* one tick with the same delay, so they expire together and run back to back,
\* spawn's first.
BetweenTimers(run) == run.spawnTimer = "fired" /\ run.timer = "armed"

\* The process ends and its 'exit' is reported: the handle is gone, and the
\* 'exit' listener of spawn's timeout option clears that timer.
Exited(run, code) ==
    [run EXCEPT !.child = "exited",
                !.code = code,
                !.spawnTimer = IF @ = "armed" THEN "cleared" ELSE @]

\* A quick child exits by itself.
ChildExits(r, code) ==
    /\ runs[r].child = "running"
    /\ runs[r].kind = "quick"
    /\ ~BetweenTimers(runs[r])
    /\ runs' = [runs EXCEPT ![r] = Exited(@, Some(code))]
    /\ UNCHANGED allowScripts
    /\ SandboxOnly

\* The child dies of a signal it was sent: its exit code is null.
ChildDies(r) ==
    /\ runs[r].child = "running"
    /\ ~BetweenTimers(runs[r])
    /\ \/ "SIGKILL" \in SeqSet(runs[r].signals)
       \/ "SIGTERM" \in SeqSet(runs[r].signals) /\ runs[r].kind # "stubborn"
    /\ runs' = [runs EXCEPT ![r] = Exited(@, None)]
    /\ UNCHANGED allowScripts
    /\ SandboxOnly

\* proc.on('close'): the process has ended and its stdio streams are closed.
OnClose(r) ==
    /\ runs[r].child = "exited"
    /\ ~BetweenTimers(runs[r])
    /\ LET run == [ClearTimeout(runs[r]) EXCEPT !.child = "closed"]
       IN  runs' = [runs EXCEPT ![r] =
             IF run.killed
             THEN Resolve(run, [stderr |-> Append(run.stderr, TimeoutMarker),
                                exitCode |-> None])
             ELSE Resolve(run, [stderr |-> run.stderr, exitCode |-> run.code])]
    /\ UNCHANGED allowScripts
    /\ SandboxOnly

\* proc.on('error'): the child could not be spawned.  No 'exit' is emitted;
\* the 'close' event follows, with the negative errno as its code.
OnError(r) ==
    /\ runs[r].child = "failing"
    /\ LET run == [ClearTimeout(runs[r]) EXCEPT !.child = "exited", !.code = Some(-2)]
       IN  runs' = [runs EXCEPT ![r] =
             Resolve(run, [stderr |-> run.stderr \o ErrorMarker(SpawnErrorMessage),
                           exitCode |-> None])]
    /\ UNCHANGED allowScripts
    /\ SandboxOnly

\* timeoutMs have passed since the spawn.
TimeoutPasses(r) ==
    /\ runs[r].clock = "before"
    /\ runs[r].timer = "armed" \/ runs[r].spawnTimer = "armed"
    /\ runs[r].child # "failing"
    /\ runs' = [runs EXCEPT ![r].clock = "expired"]
    /\ UNCHANGED allowScripts
    /\ SandboxOnly

\* The timer of spawn's timeout option fires: child.kill(killSignal).
SpawnTimeoutFires(r) ==
    /\ runs[r].spawnTimer = "armed"
    /\ runs[r].clock # "before"
    /\ runs' = [runs EXCEPT ![r] = [Kill(@, "SIGTERM") EXCEPT !.spawnTimer = "fired"]]
    /\ UNCHANGED allowScripts
    /\ SandboxOnly

TimeoutFiresForAll(r) ==
    /\ runs[r].timer = "armed"
    /\ runs[r].clock # "before"
    /\ runs[r].spawnTimer # "armed"
    /\ runs' = [x \in RunIds |->
                  IF x = r
                  THEN [Kill(runs[x], "SIGTERM") EXCEPT !.killed = TRUE,
                                                        !.atExpiry = IF runs[r].child = "running"
                                                                     THEN "running" ELSE "exited",
                                                        !.timer = "fired",
                                                        !.forceTimer = "armed"]
                  ELSE [Kill(runs[x], "SIGTERM") EXCEPT !.killed = TRUE]]
    /\ UNCHANGED allowScripts
    /\ SandboxOnly

\* executeScript's timeout callback: killed = true, SIGTERM, and the
\* 5000 ms timer is armed.
TimeoutFires(r) ==
    /\ runs[r].timer = "armed"
    /\ runs[r].clock # "before"
    /\ runs[r].spawnTimer # "armed"
    /\ runs' = [runs EXCEPT ![r] =
                  [Kill(@, "SIGTERM") EXCEPT !.killed = TRUE,
                                             !.atExpiry = IF runs[r].child = "running"
                                                          THEN "running" ELSE "exited",
                                             !.timer = "fired",
                                             !.forceTimer = "armed"]]
    /\ UNCHANGED allowScripts
    /\ SandboxOnly

\* 5000 ms have passed since the timeout callback ran.
GracePasses(r) ==
    /\ runs[r].clock = "expired"
    /\ runs[r].forceTimer = "armed"
    /\ runs' = [runs EXCEPT ![r].clock = "grace"]
    /\ UNCHANGED allowScripts
    /\ SandboxOnly

\* if (!proc.killed) proc.kill('SIGKILL')
ForceKill(run) == IF ~run.procKilled THEN Kill(run, "SIGKILL") ELSE run

\* The 5000 ms timer fires.
ForceTimerFires(r) ==
    /\ runs[r].forceTimer = "armed"
    /\ runs[r].clock = "grace"
    /\ runs' = [runs EXCEPT ![r] = [ForceKill(@) EXCEPT !.forceTimer = "fired"]]
    /\ UNCHANGED allowScripts
    /\ SandboxOnly

---------------------------------------------------------------------------
(* The resource resolver: parseSkillUri *)

\* The URIs a client may ask for: the text before the path (the scheme test
\* is uri.startsWith('loadout://')) and the pieces path.split('/') yields,
\* empty ones included.
Uris ==
    { [scheme |-> "loadout://", pieces |-> p] : p \in
        { <<>>,
          <<"help">>,
          <<"ghost">>,
          <<"foo">>,
          <<"foo", "manifest">>,
          <<"bar">>,
          <<"bar", "manifest">>,
          <<"bar", "", "manifest">>,
          <<"bar", "manifest", "extra">>,
          <<"bar", "section", "usage">>,
          <<"bar", "section", "nope">>,
          <<"bar", "code", "0">>,
          <<"bar", "code", "7">>,
          <<"bar", "code", "x">>,
          <<"bar", "references">>,
          <<"bar", "references", "api.md">>,
          <<"bar", "references", "nested", "deep.md">>,
          <<"bar", "references", "..", "SKILL.md">>,
          <<"bar", "references", "..", "scripts", "helper.sh">>,
          <<"bar", "scripts", "helper.sh">>,
          <<"bar", "assets", "logo.png">> } }
    \cup { [scheme |-> "file://", pieces |-> <<"bar">>] }

FileTypes == {"references", "scripts", "assets"}

SegmentsKeepEmpty(uri) == uri.pieces

\* path.split('/').filter((s) => s.length > 0)
Segments(uri) == SelectSeq(uri.pieces, LAMBDA s : s # "")

RemainingFirstOnly(segments) == <<segments[3]>>

\* segments.slice(2), which the code joins with '/'.
Remaining(segments) == SubSeq(segments, 3, Len(segments))

\* parseSkillUri with the tests on segments.length left out.
parseSkillUriAnyLength(uri) ==
    LET segments == Segments(uri)
        name == segments[1]
        resourceType == segments[2]
    IN  IF uri.scheme # "loadout://" THEN None
        ELSE IF Len(segments) = 0 THEN None
        ELSE IF Len(segments) = 1
        THEN Some([name |-> name, type |-> "content", param |-> <<>>])
        ELSE IF resourceType = "manifest"
        THEN Some([name |-> name, type |-> "manifest", param |-> <<>>])
        ELSE IF resourceType \in {"section", "code"} \cup FileTypes
        THEN Some([name |-> name, type |-> resourceType, param |-> Remaining(segments)])
        ELSE None

\* parseSkillUri(uri): <<>> for null.  param is kept as the sequence of
\* segments that the code joins with '/'.
parseSkillUri(uri) ==
    LET segments == Segments(uri)
        name == segments[1]
        resourceType == segments[2]
        rest == Remaining(segments)
    IN  IF uri.scheme # "loadout://" THEN None
        ELSE IF Len(segments) = 0 THEN None
        ELSE IF Len(segments) = 1
        THEN Some([name |-> name, type |-> "content", param |-> <<>>])
        ELSE IF resourceType = "manifest" /\ Len(segments) = 2
        THEN Some([name |-> name, type |-> "manifest", param |-> <<>>])
        ELSE IF resourceType \in {"section", "code"} /\ Len(segments) = 3
        THEN Some([name |-> name, type |-> resourceType, param |-> rest])
        ELSE IF resourceType \in FileTypes /\ Len(segments) >= 3
        THEN Some([name |-> name, type |-> resourceType, param |-> rest])
        ELSE None

---------------------------------------------------------------------------
(* The resource resolver: readResource *)

\* readFile(p) succeeds.
FileExists(p) ==
    \/ p \in ResourceFiles
    \/ p \in ManifestPaths /\ disk[p] # None

\* The characters of the index strings above.
IndexChars(s) ==
    CASE s = "0"    -> <<"0">>
      [] s = "1"    -> <<"1">>
      [] s = "2"    -> <<"2">>
      [] s = "7"    -> <<"7">>
      [] s = "-1"   -> <<"-", "1">>
      [] s = "x"    -> <<"x">>
      [] s = "1abc" -> <<"1", "a", "b", "c">>
      [] s = "0.5"  -> <<"0", ".", "5">>
      [] OTHER      -> <<"x">>     \* the other strings of the model begin with a letter

Digits == <<"0", "1", "2", "3", "4", "5", "6", "7", "8", "9">>

IsDigit(c) == \E d \in 1..Len(Digits) : Digits[d] = c

DigitValue(c) == (CHOOSE d \in 1..Len(Digits) : Digits[d] = c) - 1

RECURSIVE LeadingDigits(_)
\* How many digits the characters begin with.
LeadingDigits(chars) ==
    IF chars = <<>> \/ ~IsDigit(chars[1]) THEN 0
    ELSE 1 + LeadingDigits(Tail(chars))

RECURSIVE Decimal(_, _)
\* The number the digits denote in radix 10, read after the value acc.
Decimal(digits, acc) ==
    IF digits = <<>> THEN acc
    ELSE Decimal(Tail(digits), 10 * acc + DigitValue(digits[1]))

\* parseInt(param, 10): an optional sign, then the longest run of digits;
\* what follows the digits is ignored; <<>> for NaN, when there is no digit.
ParseInt(s) ==
    LET chars == IndexChars(s)
        signed == chars # <<>> /\ chars[1] \in {"-", "+"}
        rest == IF signed THEN Tail(chars) ELSE chars
        n == LeadingDigits(rest)
        value == Decimal(SubSeq(rest, 1, n), 0)
    IN  IF n = 0 THEN None
        ELSE IF signed /\ chars[1] = "-" THEN Some(0 - value)
        ELSE Some(value)

RECURSIVE TrimEnd(_)
\* What String.trim() leaves of joined lines at their end: the blank lines
\* at the end go (no line of the model has spaces at its ends).
TrimEnd(lines) ==
    IF lines # <<>> /\ lines[Len(lines)] = ""
    THEN TrimEnd(SubSeq(lines, 1, Len(lines) - 1))
    ELSE lines

RECURSIVE TrimStart(_)
TrimStart(lines) ==
    IF lines # <<>> /\ lines[1] = "" THEN TrimStart(Tail(lines)) ELSE lines

\* sectionLines.join('\n').trim(), kept as lines.
Trim(lines) == TrimStart(TrimEnd(lines))

ClosesOnlyShallower(otherEntry, entry) ==
    otherEntry.line > entry.line /\ otherEntry.level < entry.level

\* otherEntry ends the section of entry.
Closes(otherEntry, entry) ==
    otherEntry.line > entry.line /\ otherEntry.level <= entry.level

\* extractSectionContent(body, slug, toc): <<>> for null.
extractSectionContent(body, slug, toc) ==
    LET found == {i \in 1..Len(toc) : toc[i].slug = slug}
        entry == toc[CHOOSE i \in found : \A j \in found : i <= j]
        closing == {i \in 1..Len(toc) : Closes(toc[i], entry)}
        endLine == IF closing = {} THEN Len(body)
                   ELSE toc[CHOOSE i \in closing : \A j \in closing : i <= j].line - 1
    IN  IF found = {} THEN None
        ELSE IF entry.line - 1 < 0 \/ entry.line - 1 >= Len(body) THEN None
        ELSE Some(Trim(SubSeq(body, entry.line, endLine)))

NeedsParsedUnlessContent(type) == type # "content"

\* The cases of readResource that begin with `if (!skill.parsed) throw`.
NeedsParsed(type) == type \in {"manifest", "section", "code"}

\* What readResource settles with: the text of a served resource that is not
\* a file's, and the numbers an error message carries after its fixed part.
Served(request, file) ==
    [ok |-> TRUE, error |-> "", request |-> Some(request), file |-> file,
     text |-> None, range |-> None]

ServedText(request, text) == [Served(request, None) EXCEPT !.text = Some(text)]

Thrown(request, message) ==
    [ok |-> FALSE, error |-> message, request |-> Some(request), file |-> None,
     text |-> None, range |-> None]

\* `Invalid code block index: ${param}. Valid range: 0-${length - 1}`
ThrownRange(request, message, last) ==
    [Thrown(request, message) EXCEPT !.range = Some([first |-> 0, last |-> last])]

\* The switch of readResource on parsed.type, for a registered skill.
readSkillResource(request, skill) ==
    LET type == request.type
        param == request.param
        filePath == Join(skill.path, <<type>> \o param)
        index == ParseInt(param[1])
        sectionContent ==
            extractSectionContent(skill.parsed[1].body, param[1], skill.parsed[1].toc)
    IN  IF NeedsParsed(type) /\ skill.parsed = None
        THEN Thrown(request, "Skill not parsed")
        ELSE CASE type = "content" ->
                    IF FileExists(skill.skillMdPath)
                    THEN Served(request, Some(skill.skillMdPath))
                    ELSE Thrown(request, "ENOENT")
               [] type = "manifest" ->
                    ServedText(request, createManifest(skill.parsed[1]))
               [] type = "section" ->
                    IF param = <<>> THEN Thrown(request, "Section slug required")
                    ELSE IF sectionContent = None
                    THEN Thrown(request, "Section not found")
                    ELSE ServedText(request, sectionContent[1])
               [] type = "code" ->
                    IF param = <<>> THEN Thrown(request, "Code block index required")
                    ELSE IF \/ index = None
                            \/ index[1] < 0
                            \/ index[1] >= Len(skill.parsed[1].codeBlocks)
                    THEN ThrownRange(request, "Invalid code block index",
                                     Len(skill.parsed[1].codeBlocks) - 1)
                    ELSE ServedText(request,
                                    skill.parsed[1].codeBlocks[index[1] + 1].content)
               [] type \in FileTypes ->
                    IF param = <<>> THEN Thrown(request, "File name required")
                    ELSE IF FileExists(filePath)
                    THEN Served(request, Some(filePath))
                    ELSE Thrown(request, "File not found")

\* readResource(uri): what the promise settles with.
readResource(uri) ==
    LET parsed == parseSkillUri(uri)
        skill == getSkill(parsed[1].name)
        help == [name |-> "help", type |-> "help", param |-> <<>>]
    IN  IF uri = [scheme |-> "loadout://", pieces |-> <<"help">>]
        THEN Served(help, None)
        ELSE IF parsed = None
        THEN [ok |-> FALSE, error |-> "Invalid skill URI", request |-> None,
              file |-> None, text |-> None, range |-> None]
        ELSE IF skill = None
        THEN Thrown(parsed[1], "Skill not found")
        ELSE readSkillResource(parsed[1], skill[1])

\* A client reads one resource.
ReadResource(uri) ==
    /\ lastRead' = Some([uri |-> uri] @@ readResource(uri))
    /\ UNCHANGED <<discoveryVars, sandboxVars, lastCall>>

---------------------------------------------------------------------------
(* The read-only tools and accessors *)

\* The characters of the names, descriptions and queries of the model.
TextChars(s) ==
    CASE s = "foo" -> <<"f", "o", "o">>
      [] s = "bar" -> <<"b", "a", "r">>
      [] s = "d1"  -> <<"d", "1">>
      [] s = "d2"  -> <<"d", "2">>
      [] s = "FO"  -> <<"F", "O">>
      [] s = "a"   -> <<"a">>
      [] s = "D1"  -> <<"D", "1">>
      [] s = "zz"  -> <<"z", "z">>
      [] s = ""    -> <<>>

LowerCharsAsWritten(chars) == chars

\* String.toLowerCase, character by character.
LowerChars(chars) ==
    [i \in 1..Len(chars) |->
        CASE chars[i] = "F" -> "f"
          [] chars[i] = "O" -> "o"
          [] chars[i] = "D" -> "d"
          [] OTHER -> chars[i]]

\* String.includes
Includes(text, part) ==
    \E k \in 0..(Len(text) - Len(part)) : SubSeq(text, k + 1, k + Len(part)) = part

\* searchSkills(query)
searchSkills(query) ==
    LET q == LowerChars(TextChars(query))
    IN  SelectSeq(getAllSkills,
                  LAMBDA sk : \/ Includes(LowerChars(TextChars(sk.name)), q)
                              \/ Includes(LowerChars(TextChars(sk.description)), q))

\* `${i}` for an index.
IndexText(i) == Digits[i + 1]

SkillUri(pieces) == [scheme |-> "loadout://", pieces |-> pieces]

\* The resources listResources pushes for one skill.
ResourcesOf(skill) ==
    LET name == skill.name
        parsed == skill.parsed[1]
        files(type) == [i \in 1..Len(parsed.files[type]) |->
                           SkillUri(<<name, type, parsed.files[type][i]>>)]
    IN  <<SkillUri(<<name>>), SkillUri(<<name, "manifest">>)>> \o
        IF skill.parsed = None THEN <<>>
        ELSE [i \in 1..Len(parsed.toc) |-> SkillUri(<<name, "section", parsed.toc[i].slug>>)]
             \o [i \in 1..Len(parsed.codeBlocks) |-> SkillUri(<<name, "code", IndexText(i - 1)>>)]
             \o files("references") \o files("scripts") \o files("assets")

RECURSIVE ResourcesFrom(_, _)
ResourcesFrom(all, i) ==
    IF i > Len(all) THEN <<>> ELSE ResourcesOf(all[i]) \o ResourcesFrom(all, i + 1)

\* listResources(): the help resource, then every skill's.
listResources == <<SkillUri(<<"help">>)>> \o ResourcesFrom(getAllSkills, 1)

\* skills.map((skill) => ({name, description, path}))
SkillList(found) ==
    [i \in 1..Len(found) |-> [name |-> found[i].name,
                               description |-> found[i].description,
                               path |-> found[i].path]]

\* get_skill_manifest({name})
get_skill_manifest(name) ==
    LET skill == getSkill(name)
    IN  IF skill = None THEN errorResult("Skill not found")
        ELSE IF skill[1].parsed = None THEN errorResult("Skill has not been parsed")
        ELSE successResult(createManifest(skill[1].parsed[1]))

Queries == {"FO", "a", "D1", "d1", "zz", ""}

ReadsOnlyEvicting ==
    /\ skills' = <<>>
    /\ UNCHANGED <<roots, disk, watcher, watchers, events, inflight, scanning, emitted,
                   diskOps, scanDisturbed, quietScans, scanSnap, sandboxVars, lastRead>>

\* A client calls a tool or accessor that only reads.
ReadsOnly == UNCHANGED <<discoveryVars, sandboxVars, lastRead>>

ListSkills ==
    /\ lastCall' = Some([call |-> "list_skills", arg |-> None,
                         result |-> successResult(SkillList(getAllSkills))])
    /\ ReadsOnly

SearchSkills(query) ==
    /\ lastCall' = Some([call |-> "search_skills", arg |-> Some(query),
                         found |-> searchSkills(query),
                         result |-> successResult(SkillList(searchSkills(query)))])
    /\ ReadsOnly

GetSkillManifest(name) ==
    /\ lastCall' = Some([call |-> "get_skill_manifest", arg |-> Some(name),
                         result |-> get_skill_manifest(name)])
    /\ ReadsOnly

ListResources ==
    /\ lastCall' = Some([call |-> "listResources", arg |-> None,
                         result |-> listResources])
    /\ ReadsOnly

GetSearchPaths ==
    /\ lastCall' = Some([call |-> "getSearchPaths", arg |-> None,
                         result |-> getSearchPaths])
    /\ ReadsOnly

---------------------------------------------------------------------------
(* The discovery engine as a whole *)

\* The disk the program starts on: project/a and custom/b hold a skill,
\* custom/a does not exist yet.
InitialDisk ==
    [f \in ManifestPaths |->
        IF f = <<"project", "a", "SKILL.md">>
        THEN Some([name |-> Some("foo"), description |-> Some("d1")])
        ELSE IF f = <<"custom", "b", "SKILL.md">>
        THEN Some([name |-> Some("bar"), description |-> Some("d1")])
        ELSE None]

Init ==
    /\ roots = AllDirectories
    /\ disk = InitialDisk
    /\ skills = <<>>
    /\ watcher = FALSE
    /\ watchers = 0
    /\ events = <<>>
    /\ inflight = <<>>
    /\ scanning = None
    /\ emitted = <<>>
    /\ diskOps = 0
    /\ scanDisturbed = FALSE
    /\ quietScans = 0
    /\ scanSnap = None
    /\ allowScripts = FALSE
    /\ runs = [r \in RunIds |-> IdleRun]
    /\ lastRead = None
    /\ lastCall = None

Next ==
    \/ \E f \in EditedPaths, c \in Contents : WriteManifest(f, c)
    \/ \E f \in EditedPaths : DeleteManifest(f)
    \/ ScanStart
    \/ ScanCandidate
    \/ Watch
    \/ Close
    \/ HandlerBegin
    \/ \E i \in 1..Len(inflight) : HandlerFinish(i)
    \/ UnlinkHandler

Spec == Init /\ [][Next]_vars

---------------------------------------------------------------------------
(* The script sandbox as a whole *)

\* The registry the sandbox reads: what scan() registers from the initial
\* disk, or nothing when no scan has run.
RECURSIVE ScanAll(_, _)
ScanAll(reg, i) ==
    IF i > Len(Candidates) THEN reg
    ELSE LET searchPath == SearchPathOf(Candidates[i])
             found == discoverSkillFromPath(Candidates[i])
         IN  ScanAll(IF ~directoryExists(searchPath) \/ ReaddirThrows(searchPath)
                     THEN reg
                     ELSE IF Registrable(found) THEN ScanRegister(reg, found[1])
                     ELSE reg,
                     i + 1)

SandboxInit ==
    /\ roots = AllDirectories
    /\ disk = InitialDisk
    /\ skills \in {ScanAll(<<>>, 1), <<>>}
    /\ watcher = FALSE
    /\ watchers = 0
    /\ events = <<>>
    /\ inflight = <<>>
    /\ scanning = None
    /\ emitted = <<>>
    /\ diskOps = 0
    /\ scanDisturbed = FALSE
    /\ quietScans = 0
    /\ scanSnap = None
    /\ allowScripts \in BOOLEAN
    /\ runs = [r \in RunIds |-> IdleRun]
    /\ lastRead = None
    /\ lastCall = None

SandboxNext ==
    \/ \E r \in RunIds, skillName \in {"bar", "ghost"}, script \in ScriptNames,
          kind \in ChildKinds : RunSkillScript(r, skillName, script, kind)
    \/ \E r \in RunIds : StderrData(r)
    \/ \E r \in RunIds, code \in ExitCodes : ChildExits(r, code)
    \/ \E r \in RunIds : ChildDies(r)
    \/ \E r \in RunIds : OnClose(r)
    \/ \E r \in RunIds : OnError(r)
    \/ \E r \in RunIds : TimeoutPasses(r)
    \/ \E r \in RunIds : SpawnTimeoutFires(r)
    \/ \E r \in RunIds : TimeoutFires(r)
    \/ \E r \in RunIds : GracePasses(r)
    \/ \E r \in RunIds : ForceTimerFires(r)

SandboxSpec == SandboxInit /\ [][SandboxNext]_vars

\* What the event loop and the operating system guarantee of a run: time
\* passes and an expired timer's callback runs; a quick child exits; a child
\* dies of a signal it does not ignore; the streams of an ended child close
\* and 'close' is delivered; a failed spawn is reported.
SandboxFairness ==
    \A r \in RunIds :
        /\ WF_vars(TimeoutPasses(r))
        /\ WF_vars(SpawnTimeoutFires(r))
        /\ WF_vars(TimeoutFires(r))
        /\ WF_vars(GracePasses(r))
        /\ WF_vars(ForceTimerFires(r))
        /\ WF_vars(\E code \in ExitCodes : ChildExits(r, code))
        /\ WF_vars(ChildDies(r))
        /\ WF_vars(OnClose(r))
        /\ WF_vars(OnError(r))

SandboxFairSpec == SandboxSpec /\ SandboxFairness

---------------------------------------------------------------------------
(* The resource resolver as a whole *)

\* The registry with the parsed document of the skills named in S set to null.
Unparsed(reg, S) ==
    [i \in 1..Len(reg) |->
        IF reg[i].key \in S
        THEN [reg[i] EXCEPT !.value = [reg[i].value EXCEPT !.parsed = None]]
        ELSE reg[i]]

\* The registries a resource handler may be given: the skills scan() finds on
\* the initial disk, each with a parsed document or, as the DiscoveredSkill
\* type allows, with null.
Registries == { Unparsed(ScanAll(<<>>, 1), S) : S \in SUBSET {"foo", "bar"} }

ResourceInit ==
    /\ roots = AllDirectories
    /\ disk = InitialDisk
    /\ skills \in Registries
    /\ watcher = FALSE
    /\ watchers = 0
    /\ events = <<>>
    /\ inflight = <<>>
    /\ scanning = None
    /\ emitted = <<>>
    /\ diskOps = 0
    /\ scanDisturbed = FALSE
    /\ quietScans = 0
    /\ scanSnap = None
    /\ allowScripts = FALSE
    /\ runs = [r \in RunIds |-> IdleRun]
    /\ lastRead = None
    /\ lastCall = None

ResourceNext ==
    \/ \E uri \in Uris : ReadResource(uri)
    \/ \E f \in EditedPaths, c \in Contents : WriteManifest(f, c)
    \/ \E f \in EditedPaths : DeleteManifest(f)

ResourceSpec == ResourceInit /\ [][ResourceNext]_vars

---------------------------------------------------------------------------
(* The resource resolver over the documents a skill may hold *)

RECURSIVE SeqsUpTo(_, _)
\* The sequences over S of length 1..n.
SeqsUpTo(S, n) ==
    IF n = 0 THEN {}
    ELSE LET shorter == SeqsUpTo(S, n - 1)
         IN  {<<x>> : x \in S} \cup shorter \cup
             {Append(q, x) : q \in {p \in shorter : Len(p) = n - 1}, x \in S}

Bodies == SeqsUpTo(BodyLines, MaxBodyLines)

\* The disk whose custom/b/SKILL.md is the skill bar with the given body.
DocumentDisk(body) ==
    [f \in ManifestPaths |->
        IF f = <<"custom", "b", "SKILL.md">>
        THEN Some([name |-> Some("bar"), description |-> Some("d1"), body |-> body])
        ELSE None]

\* The sections, code blocks and manifest a client asks of the skill bar.
DocumentUris ==
    { [scheme |-> "loadout://", pieces |-> p] : p \in
        { <<"bar", "manifest">>,
          <<"bar", "section", "a">>,
          <<"bar", "section", "a-1">>,
          <<"bar", "section", "b">>,
          <<"bar", "section", "b-1">>,
          <<"bar", "section", "nope">>,
          <<"bar", "code", "0">>,
          <<"bar", "code", "1">>,
          <<"bar", "code", "2">>,
          <<"bar", "code", "-1">>,
          <<"bar", "code", "x">>,
          <<"bar", "code", "1abc">>,
          <<"bar", "code", "0.5">> } }

\* The server has scanned a disk that holds one skill, with any body.
DocumentInit ==
    /\ roots = AllDirectories
    /\ disk \in {DocumentDisk(body) : body \in Bodies}
    /\ skills = ScanAll(<<>>, 1)
    /\ watcher = FALSE
    /\ watchers = 0
    /\ events = <<>>
    /\ inflight = <<>>
    /\ scanning = None
    /\ emitted = <<>>
    /\ diskOps = 0
    /\ scanDisturbed = FALSE
    /\ quietScans = 0
    /\ scanSnap = None
    /\ allowScripts = FALSE
    /\ runs = [r \in RunIds |-> IdleRun]
    /\ lastRead = None
    /\ lastCall = None

DocumentNext == \E uri \in DocumentUris : ReadResource(uri)

DocumentSpec == DocumentInit /\ [][DocumentNext]_vars

---------------------------------------------------------------------------
(* The outline of documents whose headings collide *)

MaxHeadingLines == 4

\* A heading, a heading whose slug is the one the slugger gives the first
\* repetition of that heading, a heading of punctuation only, and a
\* paragraph line.
HeadingLines == {"# A", "# A-1", "# !", "text"}

HeadingBodies == SeqsUpTo(HeadingLines, MaxHeadingLines)

\* The slugs the outlines of these bodies may hold.
OutlineSlugs ==
    {Slug(base, k) : base \in {"a", "a-1", ""}, k \in 0..(MaxHeadingLines + 1)}

\* `loadout://${skill.name}/section/${entry.slug}`
SectionUris == {[scheme |-> "loadout://", pieces |-> <<"bar", "section", slug>>] :
                   slug \in OutlineSlugs}

\* The server has scanned a disk that holds one skill, with any of the bodies.
OutlineInit ==
    /\ roots = AllDirectories
    /\ disk \in {DocumentDisk(body) : body \in HeadingBodies}
    /\ skills = ScanAll(<<>>, 1)
    /\ watcher = FALSE
    /\ watchers = 0
    /\ events = <<>>
    /\ inflight = <<>>
    /\ scanning = None
    /\ emitted = <<>>
    /\ diskOps = 0
    /\ scanDisturbed = FALSE
    /\ quietScans = 0
    /\ scanSnap = None
    /\ allowScripts = FALSE
    /\ runs = [r \in RunIds |-> IdleRun]
    /\ lastRead = None
    /\ lastCall = None

\* A client lists the resources, or reads one section.
OutlineNext ==
    /\ lastRead = None
    /\ \/ \E uri \in SectionUris : ReadResource(uri)
       \/ ListResources

OutlineSpec == OutlineInit /\ [][OutlineNext]_vars

---------------------------------------------------------------------------
(* The resource resolver over the URIs a client may send *)

MaxPieces == 4

\* What stands between the slashes of a URI: nothing, a skill's name, the
\* resource types, an index.
Pieces == {"", "bar", "manifest", "section", "code", "references", "scripts", "0"}

RECURSIVE PieceSeqs(_)
\* The sequences of at most n pieces.
PieceSeqs(n) ==
    IF n = 0 THEN {<<>>}
    ELSE LET shorter == PieceSeqs(n - 1)
         IN  shorter \cup
             {Append(q, x) : q \in {p \in shorter : Len(p) = n - 1}, x \in Pieces}

AllUris ==
    Uris \cup
    { [scheme |-> sch, pieces |-> p] : sch \in {"loadout://", "file://"},
                                      p \in PieceSeqs(MaxPieces) }

\* The handlers are given a discovery that has scanned the initial disk, or
\* one that has not scanned yet.
UriInit ==
    /\ roots = AllDirectories
    /\ disk = InitialDisk
    /\ skills \in {ScanAll(<<>>, 1), <<>>}
    /\ watcher = FALSE
    /\ watchers = 0
    /\ events = <<>>
    /\ inflight = <<>>
    /\ scanning = None
    /\ emitted = <<>>
    /\ diskOps = 0
    /\ scanDisturbed = FALSE
    /\ quietScans = 0
    /\ scanSnap = None
    /\ allowScripts = FALSE
    /\ runs = [r \in RunIds |-> IdleRun]
    /\ lastRead = None
    /\ lastCall = None

\* A client sends one URI.  readResource keeps nothing from one call to the
\* next, so a behaviour holds one call.
UriNext == lastRead = None /\ \E uri \in AllUris : ReadResource(uri)

UriSpec == UriInit /\ [][UriNext]_vars

---------------------------------------------------------------------------
(* The read paths over a registry *)

\* The server has scanned the initial disk or not yet; skills may lack their
\* parsed document; scripts are allowed or not.
\* The initial disk with one more skill, whose name and description are
\* written in capitals.
CapitalsDisk ==
    [InitialDisk EXCEPT ![<<"custom", "a", "SKILL.md">>] =
        Some([name |-> Some("FO"), description |-> Some("D1")])]

ReadInit ==
    /\ roots = AllDirectories
    /\ disk \in {InitialDisk, CapitalsDisk}
    /\ skills \in Registries \cup {<<>>}
    /\ watcher = FALSE
    /\ watchers = 0
    /\ events = <<>>
    /\ inflight = <<>>
    /\ scanning = None
    /\ emitted = <<>>
    /\ diskOps = 0
    /\ scanDisturbed = FALSE
    /\ quietScans = 0
    /\ scanSnap = None
    /\ allowScripts \in BOOLEAN
    /\ runs = [r \in RunIds |-> IdleRun]
    /\ lastRead = None
    /\ lastCall = None

\* The scripts and URIs the clients of this specification ask for.
ReadScripts == { n \in ScriptNames : n.segs \in {<<"helper.sh">>, <<"missing.sh">>} }

ReadUris ==
    { u \in Uris : u.pieces \in { <<"bar">>, <<"bar", "manifest">>, <<"ghost">>,
                                  <<"bar", "section", "usage">>, <<"bar", "code", "7">>,
                                  <<"bar", "references", "api.md">>,
                                  <<"bar", "manifest", "extra">> } }

ReadNext ==
    \/ \E uri \in ReadUris : ReadResource(uri)
    \/ ListSkills
    \/ \E query \in Queries : SearchSkills(query)
    \/ \E name \in {"foo", "bar", "ghost"} : GetSkillManifest(name)
    \/ ListResources
    \/ GetSearchPaths
    \/ \E skillName \in {"bar", "ghost"}, script \in ReadScripts,
          kind \in {"quick", "spawnfail"} : RunSkillScript("r1", skillName, script, kind)
    \/ \E code \in ExitCodes : ChildExits("r1", code)
    \/ OnClose("r1")
    \/ OnError("r1")

ReadSpec == ReadInit /\ [][ReadNext]_vars

---------------------------------------------------------------------------
(* Watching after the initial scan *)

\* The server has scanned the initial disk; from then on it watches and
\* stops watching while manifests are written and deleted.
WatchInit ==
    /\ roots = AllDirectories
    /\ disk = InitialDisk
    /\ skills = ScanAll(<<>>, 1)
    /\ watcher = FALSE
    /\ watchers = 0
    /\ events = <<>>
    /\ inflight = <<>>
    /\ scanning = None
    /\ emitted = <<>>
    /\ diskOps = 0
    /\ scanDisturbed = FALSE
    /\ quietScans = 0
    /\ scanSnap = None
    /\ allowScripts = FALSE
    /\ runs = [r \in RunIds |-> IdleRun]
    /\ lastRead = None
    /\ lastCall = None

WatchNext ==
    \/ \E f \in EditedPaths, c \in Contents : WriteManifest(f, c)
    \/ \E f \in EditedPaths : DeleteManifest(f)
    \/ WatchLogged
    \/ CloseLogged
    \/ HandlerBegin
    \/ \E i \in 1..Len(inflight) : HandlerFinish(i)
    \/ UnlinkHandler

WatchSpec == WatchInit /\ [][WatchNext]_vars

---------------------------------------------------------------------------
(* scan() over disks that hold unparsable manifests *)

\* What a candidate directory may hold: no manifest, or one of these texts.
ScanContents == Contents \cup {BadYaml}

ScanDisks == [ManifestPaths -> {None} \cup {Some(c) : c \in ScanContents}]

\* What the search paths may be when scan() runs.
ScanRoots == [SearchRoots -> RootKinds]

ScanInit ==
    /\ roots \in ScanRoots
    /\ disk \in ScanDisks
    /\ \A f \in ManifestPaths : roots[SearchPathOf(f)] # "dir" => disk[f] = None
    /\ skills = <<>>
    /\ watcher = FALSE
    /\ watchers = 0
    /\ events = <<>>
    /\ inflight = <<>>
    /\ scanning = None
    /\ emitted = <<>>
    /\ diskOps = 0
    /\ scanDisturbed = FALSE
    /\ quietScans = 0
    /\ scanSnap = None
    /\ allowScripts = FALSE
    /\ runs = [r \in RunIds |-> IdleRun]
    /\ lastRead = None
    /\ lastCall = None

ScanOnlyNext ==
    \/ ScanStart
    \/ ScanCandidate

ScanSpec == ScanInit /\ [][ScanOnlyNext]_vars

---------------------------------------------------------------------------
(* Steps as the claims see them *)

\* This step is the 'unlink' handler running for the manifest filePath.
UnlinkHandled(filePath) ==
    /\ watcher /\ watcher'
    /\ events # <<>>
    /\ Head(events) = [kind |-> "unlink", file |-> filePath]
    /\ events' = Tail(events)

\* This step is the rest of the 'add' or 'change' handler inflight[i].
HandlerFinished(i) ==
    /\ i \in 1..Len(inflight)
    /\ inflight' = RemoveAt(inflight, i)

Removed(name, dir) == [type |-> "skill:removed", name |-> name, path |-> dir]

Discovered(skill) == [type |-> "skill:discovered", skill |-> skill]

Updated(skill, previous) ==
    [type |-> "skill:updated", skill |-> skill, previous |-> previous]

\* The manifest at f is on disk and its frontmatter declares the name n.
Declares(f, n) == disk[f] # None /\ OrEmpty(disk[f][1].name) = n

Names == {"foo", "bar"}

---------------------------------------------------------------------------
(* C1 *)

\* C1: while watching, when the manifest of a registered skill (registered
\* from that very file) is deleted, the unlink handler emits exactly one
\* 'skill:removed' carrying that skill's name and directory, and getSkill of
\* that name is undefined afterwards.
C1_UnlinkRemovesTheSkill ==
    [][\A f \in ManifestPaths : \A i \in 1..Len(skills) :
          (UnlinkHandled(f) /\ skills[i].value.skillMdPath = f)
          => /\ emitted' = <<Removed(skills[i].key, Dirname(f))>>
             /\ MapGet(skills', skills[i].key) = None]_vars

---------------------------------------------------------------------------
(* C2 *)

\* C2: when the timeout callback of a run finds the child running, SIGTERM has
\* been delivered to it; and when the 5000 ms timer has fired and the child
\* is still running, SIGKILL has been delivered to it.
C2_TermThenKill ==
    \A r \in RunIds :
        /\ (runs[r].atExpiry = "running") => "SIGTERM" \in SeqSet(runs[r].signals)
        /\ (runs[r].forceTimer = "fired" /\ runs[r].child = "running")
              => "SIGKILL" \in SeqSet(runs[r].signals)

---------------------------------------------------------------------------
(* C3 *)

HasMarker(stderr) == TimeoutMarker \in SeqSet(stderr)

EndsWithMarker(stderr) == stderr # <<>> /\ stderr[Len(stderr)] = TimeoutMarker

\* C3: for a run whose child was started and whose promise has resolved: if
\* the timeout callback found the child running, exitCode is null and stderr
\* ends with the timeout marker; if the child had exited by itself by then
\* (or the timeout never fired), exitCode is the child's exit code and stderr
\* has no timeout marker.
C3_ResultTellsTimeoutFromExit ==
    \A r \in RunIds :
        (runs[r].result # None /\ runs[r].kind # "spawnfail") =>
            IF runs[r].atExpiry = "running"
            THEN /\ runs[r].result[1].exitCode = None
                 /\ EndsWithMarker(runs[r].result[1].stderr)
            ELSE /\ runs[r].result[1].exitCode = runs[r].code
                 /\ ~HasMarker(runs[r].result[1].stderr)

---------------------------------------------------------------------------
(* C4 *)

\* The registered skill a readResource call named.
SkillOf(read) == getSkill(read.request[1].name)[1]

\* C4: when readResource has served a references, scripts or assets URI, the
\* file it read lies inside the skill's subdirectory of that type.
C4_ReadsStayInsideSubdirectory ==
    \A read \in SeqSet(lastRead) :
        (read.ok /\ read.request[1].type \in FileTypes) =>
            IsPrefix(Join(SkillOf(read).path, <<read.request[1].type>>), read.file[1])

---------------------------------------------------------------------------
(* C5 *)

\* The script name contains a directory separator.
HasSeparator(name) ==
    \/ name.absolute
    \/ Len(name.segs) > 1
    \/ \E i \in 1..Len(name.segs) : HasBackslash(name.segs[i])

\* C5: a run_skill_script call whose script name contains a directory
\* separator returns an error result and no child is spawned.
C5_SeparatorRejected ==
    \A r \in RunIds :
        (runs[r].req # None /\ HasSeparator(runs[r].req[1].script)) =>
            /\ runs[r].phase = "done"
            /\ runs[r].tool # None
            /\ runs[r].tool[1].isError
            /\ runs[r].child = "none"

---------------------------------------------------------------------------
(* C6 *)

\* C6: when a scan() has completed and a second scan() completes with no
\* disk change and no watch handler in between, getAllSkills() holds the same
\* records (same names, same field values) as after the first.
C6_ScanTwiceSameRegistry ==
    (scanning = None /\ quietScans = 2)
    => SeqSet(getAllSkills) = {scanSnap[1][i].value : i \in 1..Len(scanSnap[1])}

\* Two scans ran back to back and registered two skills.
C6_Witness ==
    scanning = None /\ quietScans = 2 /\ Len(skills) = 2

---------------------------------------------------------------------------
(* C7 *)

\* C7 as stated: an add or change event whose parsed name is non-empty
\* upserts the record and emits 'skill:discovered' exactly when the name was
\* not registered before, 'skill:updated' with the previous record exactly
\* when it replaces one.
C7_DiscoveredIffNew ==
    [][\A i \in 1..Len(inflight) :
          (HandlerFinished(i) /\ Registrable(inflight[i].found))
          => LET skill == inflight[i].found[1]
                 previous == MapGet(skills, skill.name)
             IN  /\ MapGet(skills', skill.name) = Some(skill)
                 /\ previous = None => emitted' = <<Discovered(skill)>>
                 /\ previous # None => emitted' = <<Updated(skill, previous)>>]_vars

\* C7 amended: the record is upserted; an add event emits 'skill:discovered'
\* exactly when the name was not registered before and 'skill:updated' with
\* the previous record otherwise; a change event always emits
\* 'skill:updated', whose previous is the replaced record, or undefined when
\* the name was not registered before.
C7_AddDiscoversChangeUpdates ==
    [][\A i \in 1..Len(inflight) :
          (HandlerFinished(i) /\ Registrable(inflight[i].found))
          => LET skill == inflight[i].found[1]
                 previous == MapGet(skills, skill.name)
             IN  /\ MapGet(skills', skill.name) = Some(skill)
                 /\ (inflight[i].kind = "add" /\ previous = None)
                        => emitted' = <<Discovered(skill)>>
                 /\ (inflight[i].kind = "add" /\ previous # None)
                        => emitted' = <<Updated(skill, previous)>>
                 /\ inflight[i].kind = "change"
                        => emitted' = <<Updated(skill, previous)>>]_vars

\* A change handler has just registered a name that was not registered before.
C7_Witness ==
    /\ Len(emitted) = 1
    /\ emitted[1].type = "skill:updated"
    /\ emitted[1].previous = None
    /\ getSkill(emitted[1].skill.name) = Some(emitted[1].skill)

---------------------------------------------------------------------------
(* C8 *)

RootOf(p) == <<p[1]>>

\* The root r1 comes before the root r2 in the search order the claim gives:
\* list order, custom paths after all default paths.
Precedes(r1, r2) ==
    \/ r1 \in SeqSet(DefaultPaths) /\ r2 \in SeqSet(CustomPaths)
    \/ \E i, j \in 1..Len(DefaultPaths) :
          i < j /\ DefaultPaths[i] = r1 /\ DefaultPaths[j] = r2
    \/ \E i, j \in 1..Len(CustomPaths) :
          i < j /\ CustomPaths[i] = r1 /\ CustomPaths[j] = r2

---------------------------------------------------------------------------
(* C9 *)

\* C9: no registry entry has an empty name, as key or in its record.
C9_NoEmptyName ==
    \A i \in 1..Len(skills) : skills[i].key # "" /\ skills[i].value.name # ""

\* A scan has visited a manifest without a name, and a watch handler has
\* parsed one, and the registry still holds named skills only.
C9_Witness ==
    /\ scanning = None /\ quietScans >= 1
    /\ \E f \in ManifestPaths : Declares(f, "")
    /\ Len(skills) >= 1

---------------------------------------------------------------------------
(* C10 *)

\* The call named a registered skill whose parsed document is null.
OfUnparsedSkill(read) ==
    /\ read.request # None
    /\ getSkill(read.request[1].name) # None
    /\ SkillOf(read).parsed = None

---------------------------------------------------------------------------
(* C11 *)

\* The manifest at f exists and parseSkillFile throws on it.
Unparsable(f) == disk[f] # None /\ disk[f][1] = BadYaml

\* The record registered under the name the manifest at f declares comes
\* from a manifest that declares that name.
RegisteredName(reg, f) ==
    LET name == OrEmpty(disk[f][1].name)
    IN  /\ MapHas(reg, name)
        /\ \E g \in ManifestPaths :
              /\ MapGet(reg, name)[1].skillMdPath = g
              /\ disk[g] # None /\ ~Unparsable(g)
              /\ OrEmpty(disk[g][1].name) = name

\* C11: when scan() visits a manifest that cannot be parsed, it emits one
\* 'error', registers nothing from it and goes on to the next candidate; and
\* when scan() resolves, every candidate manifest that parses with a
\* non-empty name is registered, whichever candidates failed.
C11_ScanSurvivesBadManifest ==
    [][scanning # None =>
          LET i == scanning[1]
              f == Candidates[i]
          IN  /\ Unparsable(f) =>
                    /\ emitted' = <<[type |-> "error"]>>
                    /\ skills' = skills
                    /\ scanning' = IF i < Len(Candidates) THEN Some(i + 1) ELSE None
              /\ scanning' = None =>
                    \A g \in ManifestPaths :
                        (disk[g] # None /\ ~Unparsable(g)
                            /\ OrEmpty(disk[g][1].name) # "")
                        => RegisteredName(skills', g)
              /\ scanning' = None =>
                    \/ i = Len(Candidates)
                    \/ ReaddirThrows(SearchPathOf(f)) /\ AfterSearchPath(i) = None
    ]_vars

\* A scan has resolved over a disk where project/a and custom/a hold
\* unparsable manifests, and the skill of custom/b (same root as custom/a,
\* later root than project/a) is registered.
C11_Witness ==
    /\ scanning = None /\ quietScans >= 1
    /\ Unparsable(<<"project", "a", "SKILL.md">>)
    /\ Unparsable(<<"custom", "a", "SKILL.md">>)
    /\ \E i \in 1..Len(skills) :
          skills[i].value.skillMdPath = <<"custom", "b", "SKILL.md">>

---------------------------------------------------------------------------
(* C12 *)

\* C12: every executeScript invocation that has spawned its child eventually
\* resolves, whatever the child does, and none rejects.
C12_EveryRunResolves ==
    \A r \in RunIds :
        (runs[r].phase = "spawned") ~> (runs[r].result # None /\ ~runs[r].rejected)

---------------------------------------------------------------------------
(* C13 *)

\* The spawn of the run failed and its 'error' event has been delivered.
SpawnFailed(run) == run.kind = "spawnfail" /\ run.child \in {"exited", "closed"}

\* C13: once the 'error' event of a failed spawn has been delivered, the run
\* has resolved with exitCode null and stderr ending in the error message,
\* its timeout timer is cancelled and never fires, and run_skill_script has
\* returned that result instead of throwing.
C13_SpawnFailureIsAResult ==
    \A r \in RunIds :
        SpawnFailed(runs[r]) =>
            /\ runs[r].result =
                  Some([stderr |-> runs[r].stderr \o ErrorMarker(SpawnErrorMessage),
                        exitCode |-> None])
            /\ runs[r].timer = "cleared" /\ runs[r].forceTimer = "none"
            /\ ~runs[r].killed
            /\ ~runs[r].rejected
            /\ runs[r].tool = Some(successResult(runs[r].result[1]))

\* A failed spawn has been reported and its 'close' delivered as well.
C13_Witness ==
    \E r \in RunIds : SpawnFailed(runs[r]) /\ runs[r].child = "closed"

---------------------------------------------------------------------------
(* C14 *)

\* No child process and no timer exists for the run.
NothingSpawned(run) ==
    /\ run.child = "none"
    /\ run.signals = <<>>
    /\ run.spawnTimer = "none" /\ run.timer = "none" /\ run.forceTimer = "none"
    /\ run.result = None

\* C14: while allowScripts is false, every run_skill_script call that has
\* been made has returned the 'disabled' error result and has spawned nothing.
C14_DisabledNeverSpawns ==
    ~allowScripts =>
        \A r \in RunIds :
            runs[r].req # None =>
                /\ runs[r].phase = "done"
                /\ runs[r].tool = Some(errorResult("Script execution is disabled"))
                /\ ~runs[r].rejected
                /\ NothingSpawned(runs[r])

\* With allowScripts false, a call has asked for a script that exists in a
\* registered skill, and another for a skill that is not registered.
C14_Witness ==
    /\ ~allowScripts
    /\ \E r \in RunIds :
          /\ runs[r].req = Some([skill |-> "bar",
                                 script |-> [absolute |-> FALSE, segs |-> <<"helper.sh">>]])
          /\ getSkill("bar") # None
    /\ \E r \in RunIds : runs[r].req # None /\ runs[r].req[1].skill = "ghost"

---------------------------------------------------------------------------
(* C15 *)

\* The script name as given has a parent-directory segment, is absolute, or
\* uses the foreign separator.
NameTraverses(name) ==
    \/ \E i \in 1..Len(name.segs) : HasDotDot(name.segs[i])
    \/ name.absolute
    \/ \E i \in 1..Len(name.segs) : HasBackslash(name.segs[i])

\* The error message of the first of the five checks that fails for the
\* request, or "" when all five pass.
FirstFailedCheck(req) ==
    LET skill == getSkill(req.skill)
        scriptsDir == Join(skill[1].path, <<"scripts">>)
        resolved == Join(scriptsDir, req.script.segs)
    IN  IF skill = None THEN "Skill not found"
        ELSE IF NameTraverses(req.script) THEN "path traversal not allowed"
        ELSE IF ToLowerCase(ExtName(Basename(req.script))) \notin ALLOWED_EXTENSIONS
        THEN "Invalid script extension"
        ELSE IF ~IsPrefix(scriptsDir, resolved) THEN "must be within scripts directory"
        ELSE IF resolved \notin ScriptFiles THEN "Script not found"
        ELSE ""

\* C15: with scripts enabled, a run_skill_script call returns the error of
\* the first of the five checks that fails and spawns nothing; it starts a
\* process only when all five checks pass.
C15_FirstFailedCheckDecides ==
    allowScripts =>
        \A r \in RunIds :
            runs[r].req # None =>
                IF FirstFailedCheck(runs[r].req[1]) # ""
                THEN /\ runs[r].tool = Some(errorResult(FirstFailedCheck(runs[r].req[1])))
                     /\ NothingSpawned(runs[r])
                ELSE runs[r].tool = None \/ ~runs[r].tool[1].isError

---------------------------------------------------------------------------
(* C16 *)

\* The extensions that equal an allowed one when case is ignored.
AllowedIgnoringCase == {".sh", ".js", ".ts", ".py", ".SH", ".JS", ".TS", ".PY"}

\* The call got as far as the extension check: scripts are enabled, the skill
\* is registered and the name is not refused as a traversal.
ReachesExtensionCheck(req) ==
    /\ allowScripts
    /\ getSkill(req.skill) # None
    /\ ~IsTraversal(req.script)

\* C16: a process is started only for a script name whose extension is, case
\* ignored, one of .sh .js .ts .py; and a call that reaches the extension
\* check returns the invalid-extension error exactly when it is not.
C16_OnlyAllowedExtensionsRun ==
    \A r \in RunIds :
        runs[r].req # None =>
            LET req == runs[r].req[1]
                allowed == ExtName(Basename(req.script)) \in AllowedIgnoringCase
            IN  /\ (runs[r].child # "none" \/ runs[r].rejected) => allowed
                /\ ReachesExtensionCheck(req) =>
                      (allowed <=> runs[r].tool # Some(errorResult("Invalid script extension")))

\* Calls that reached the extension check: one for HELPER.SH, which went on
\* to the existence check, and one for a name without extension, refused.
C16_Witness ==
    /\ \E r \in RunIds :
          /\ runs[r].req # None /\ ReachesExtensionCheck(runs[r].req[1])
          /\ runs[r].req[1].script.segs = <<"HELPER.SH">>
          /\ runs[r].tool = Some(errorResult("Script not found"))
    /\ \E r \in RunIds :
          /\ runs[r].req # None /\ ReachesExtensionCheck(runs[r].req[1])
          /\ runs[r].req[1].script.segs = <<"README">>
          /\ runs[r].tool = Some(errorResult("Invalid script extension"))

---------------------------------------------------------------------------
(* C17 *)

\* C17: every path validateScriptPath has accepted for a call is a file
\* directly under the scripts directory of the skill the call named: the
\* scripts directory followed by one segment that is no directory reference.
C17_AcceptedPathsAreInScripts ==
    \A r \in RunIds :
        runs[r].scriptPath # None =>
            LET scriptsDir == Join(getSkill(runs[r].req[1].skill)[1].path, <<"scripts">>)
                fullPath == runs[r].scriptPath[1]
            IN  /\ IsPrefix(scriptsDir, fullPath)
                /\ Len(fullPath) = Len(scriptsDir) + 1
                /\ fullPath[Len(fullPath)] \notin {".", ".."}

\* validateScriptPath has accepted a name with a directory part, and one that
\* names no existing file.
C17_Witness ==
    /\ \E r \in RunIds :
          runs[r].scriptPath # None /\ Len(runs[r].req[1].script.segs) > 1
    /\ \E r \in RunIds :
          runs[r].scriptPath # None /\ runs[r].scriptPath[1] \notin ScriptFiles

---------------------------------------------------------------------------
(* C18 *)

\* The last read asked for this type of resource of the skill bar.
Asked(type) ==
    /\ lastRead # None
    /\ lastRead[1].request # None
    /\ lastRead[1].request[1].type = type
    /\ lastRead[1].request[1].name = "bar"

\* The parsed document of the skill bar.
Document == getSkill("bar")[1].parsed[1]

\* The outline entry a slug names.
Matched(slug) ==
    Document.toc[CHOOSE i \in 1..Len(Document.toc) : Document.toc[i].slug = slug]

\* The lines of the later outline entries at the level of entry or above it.
LaterSameOrShallower(entry) ==
    { Document.toc[i].line : i \in { j \in 1..Len(Document.toc) :
        /\ Document.toc[j].line > entry.line
        /\ Document.toc[j].level <= entry.level } }

\* The last line of the section of entry: the line before the first of those
\* lines, or the last line of the body.
SectionEnd(entry) ==
    IF LaterSameOrShallower(entry) = {} THEN Len(Document.body)
    ELSE (CHOOSE l \in LaterSameOrShallower(entry) :
             \A k \in LaterSameOrShallower(entry) : l <= k) - 1

\* The body lines of the section of entry.
SectionLines(entry) == SubSeq(Document.body, entry.line, SectionEnd(entry))

InOutline(slug) == \E i \in 1..Len(Document.toc) : Document.toc[i].slug = slug

\* C18, as stated: reading the section of a slug of the outline returns the
\* body lines from the heading's line up to, and excluding, the line of the
\* first later outline entry of the same or a shallower level, or up to the
\* end of the body.
C18_SectionIsTheSlice ==
    Asked("section") /\ InOutline(lastRead[1].request[1].param[1]) =>
        /\ lastRead[1].ok
        /\ lastRead[1].text = Some(SectionLines(Matched(lastRead[1].request[1].param[1])))

\* C18: reading the section of a slug of the outline returns those body
\* lines with the whitespace at both ends trimmed: the blank lines that end
\* the slice are not returned.  The line of the next same-or-shallower heading
\* is never part of it, the deeper headings in between are.
C18_SectionIsTheTrimmedSlice ==
    Asked("section") /\ InOutline(lastRead[1].request[1].param[1]) =>
        /\ lastRead[1].ok
        /\ lastRead[1].text =
              Some(Trim(SectionLines(Matched(lastRead[1].request[1].param[1]))))

\* A section was read that holds a deeper heading, ends before a later
\* heading of its level, and lost a blank line to the trimming.
C18_Witness ==
    /\ Asked("section")
    /\ lastRead[1].ok
    /\ LET entry == Matched(lastRead[1].request[1].param[1])
       IN  /\ LaterSameOrShallower(entry) # {}
           /\ \E i \in 1..Len(Document.toc) :
                 /\ Document.toc[i].level > entry.level
                 /\ Document.toc[i].line > entry.line
                 /\ Document.toc[i].line <= SectionEnd(entry)
           /\ Len(lastRead[1].text[1]) < Len(SectionLines(entry))

---------------------------------------------------------------------------
(* C19 *)

\* The string is the decimal notation of an integer, and the integer.
IsIntegerText(s) ==
    LET chars == IndexChars(s)
        digits == IF chars # <<>> /\ chars[1] = "-" THEN Tail(chars) ELSE chars
    IN  digits # <<>> /\ \A k \in 1..Len(digits) : IsDigit(digits[k])

IntegerOf(s) ==
    LET chars == IndexChars(s)
    IN  IF chars[1] = "-" THEN 0 - Decimal(Tail(chars), 0) ELSE Decimal(chars, 0)

\* C19: for the parsed skill with n code blocks, reading code/{i} returns
\* codeBlocks[i].content when i is an integer with 0 <= i < n, and fails
\* otherwise with an error that names the range 0 to n-1.
C19_CodeIndexChecked ==
    Asked("code") =>
        LET i == lastRead[1].request[1].param[1]
            n == Len(Document.codeBlocks)
        IN  IF IsIntegerText(i) /\ 0 <= IntegerOf(i) /\ IntegerOf(i) < n
            THEN /\ lastRead[1].ok
                 /\ lastRead[1].text = Some(Document.codeBlocks[IntegerOf(i) + 1].content)
            ELSE /\ ~lastRead[1].ok
                 /\ lastRead[1].range = Some([first |-> 0, last |-> n - 1])

---------------------------------------------------------------------------
(* C20 *)

\* C20: the manifest read for a parsed skill has as many code blocks as the
\* parsed document, in the same order, and the preview of each is a prefix of
\* the block's content of length min(100, length of the content).
C20_PreviewIsPrefix ==
    Asked("manifest") /\ lastRead[1].ok =>
        LET manifest == lastRead[1].text[1]
            blocks == Document.codeBlocks
        IN  /\ Len(manifest.codeBlocks) = Len(blocks)
            /\ \A i \in 1..Len(blocks) :
                  /\ manifest.codeBlocks[i].line = blocks[i].line
                  /\ manifest.codeBlocks[i].lang = blocks[i].lang
                  /\ IsPrefix(manifest.codeBlocks[i].preview, blocks[i].content)
                  /\ Len(manifest.codeBlocks[i].preview) =
                        IF Len(blocks[i].content) < 100 THEN Len(blocks[i].content)
                        ELSE 100

\* The manifest was read of a document with a code block of more than 100
\* characters.
C20_Witness ==
    /\ Asked("manifest")
    /\ lastRead[1].ok
    /\ \E i \in 1..Len(Document.codeBlocks) : Len(Document.codeBlocks[i].content) > 100

---------------------------------------------------------------------------
(* C21 *)

RECURSIVE NonEmpty(_)
\* The pieces of a URI that are not empty, in order.
NonEmpty(pieces) ==
    IF pieces = <<>> THEN <<>>
    ELSE IF Head(pieces) = "" THEN NonEmpty(Tail(pieces))
    ELSE <<Head(pieces)>> \o NonEmpty(Tail(pieces))

\* The last read was of a loadout:// URI with these non-empty segments.
ReadOf(segments) ==
    /\ lastRead # None
    /\ lastRead[1].uri.scheme = "loadout://"
    /\ NonEmpty(lastRead[1].uri.pieces) = segments

\* What parseSkillUri gave for the URI last read.
ParsedAs(type, name, param) ==
    parseSkillUri(lastRead[1].uri) = Some([name |-> name, type |-> type, param |-> param])

\* C21: a loadout:// URI whose non-empty segments are [name] parses to type
\* content, [name, 'manifest'] to type manifest, [name, 'section', p] and
\* [name, 'code', p] to that type with param p; empty segments are discarded
\* before the shape is matched.
C21_ShapesOfContentManifestSectionCode ==
    \A name \in Pieces \ {""}, p \in Pieces \ {""} :
        /\ ReadOf(<<name>>) => ParsedAs("content", name, <<>>)
        /\ ReadOf(<<name, "manifest">>) => ParsedAs("manifest", name, <<>>)
        /\ ReadOf(<<name, "section", p>>) => ParsedAs("section", name, <<p>>)
        /\ ReadOf(<<name, "code", p>>) => ParsedAs("code", name, <<p>>)

\* A manifest URI with an empty segment in it was read.
C21_Witness ==
    /\ ReadOf(<<"bar", "manifest">>)
    /\ Len(lastRead[1].uri.pieces) > 2
    /\ lastRead[1].ok

---------------------------------------------------------------------------
(* C22 *)

\* C22: a loadout:// URI whose second segment is references, scripts or
\* assets and that has further segments parses to that type with all the
\* remaining segments, in order, as param.
C22_FileParamKeepsNestedPath ==
    lastRead # None /\ lastRead[1].uri.scheme = "loadout://" =>
        LET segments == NonEmpty(lastRead[1].uri.pieces)
        IN  Len(segments) >= 3 /\ segments[2] \in {"references", "scripts", "assets"} =>
                ParsedAs(segments[2], segments[1],
                         [k \in 1..(Len(segments) - 2) |-> segments[k + 2]])

\* A nested file was read through its URI.
C22_Witness ==
    /\ ReadOf(<<"bar", "references", "nested", "deep.md">>)
    /\ lastRead[1].ok

---------------------------------------------------------------------------
(* C23 *)

\* The shapes parseSkillUri recognises.
Recognised(uri) ==
    LET segments == NonEmpty(uri.pieces)
    IN  /\ uri.scheme = "loadout://"
        /\ \/ Len(segments) = 1
           \/ Len(segments) = 2 /\ segments[2] = "manifest"
           \/ Len(segments) = 3 /\ segments[2] \in {"section", "code"}
           \/ Len(segments) >= 3 /\ segments[2] \in {"references", "scripts", "assets"}

\* C23: for every URI of another shape parseSkillUri returns null and
\* readResource fails with the invalid-URI error, whatever the registry holds.
C23_OtherShapesAreInvalid ==
    lastRead # None /\ ~Recognised(lastRead[1].uri) =>
        /\ parseSkillUri(lastRead[1].uri) = None
        /\ ~lastRead[1].ok
        /\ lastRead[1].error = "Invalid skill URI"

\* A manifest URI with an extra segment was read of a registered skill.
C23_Witness ==
    /\ ReadOf(<<"bar", "manifest", "0">>)
    /\ getSkill("bar") # None
    /\ ~lastRead[1].ok

---------------------------------------------------------------------------
(* C24 *)

\* C24: no read path changes the registry: whatever readResource,
\* listResources, list_skills (getAllSkills), search_skills (searchSkills),
\* get_skill_manifest (getSkill), getSearchPaths or run_skill_script do, and
\* whether they succeed or fail, the registered names and every record stay
\* as they were.  (Every step of the read paths' specification is one of them.)
C24_ReadPathsKeepTheRegistry == [][skills' = skills]_vars

\* With skills registered, a resource was read with success, a manifest was
\* asked of an unknown skill, and a script has run to its end.
C24_Witness ==
    /\ skills # <<>>
    /\ lastRead # None /\ lastRead[1].ok
    /\ lastCall # None /\ lastCall[1].call = "get_skill_manifest"
    /\ lastCall[1].result.isError
    /\ runs["r1"].result # None

---------------------------------------------------------------------------
(* C25 *)

\* C25: the runs do not interact.  A step that changes one run (its output
\* buffers, timed-out flag, timers, signals, exit code or result) leaves every
\* other run as it was, and no step of a run changes the registry.
C25_RunsAreIndependent ==
    [][ /\ \A a \in RunIds, b \in RunIds :
              (a # b /\ runs'[a] # runs[a]) => runs'[b] = runs[b]
        /\ runs' # runs => skills' = skills ]_vars

\* Two runs are in flight at once; one has timed out and its child was sent a
\* signal, the other's child runs on untouched.
C25_Witness ==
    \E a \in RunIds, b \in RunIds :
        /\ a # b
        /\ runs[a].phase = "spawned" /\ runs[a].killed /\ runs[a].signals # <<>>
        /\ runs[b].phase = "spawned" /\ runs[b].child = "running"
        /\ ~runs[b].killed /\ runs[b].signals = <<>>

---------------------------------------------------------------------------
(* C26 *)

\* C26: the watch handlers update the registry in the order their events
\* arrived: an add or change handler does not finish while a handler of an
\* earlier event for the same manifest, which parsed another record, is
\* still awaiting its parse (it would overwrite the later record with the
\* older one).
C26_AppliedInArrivalOrder ==
    [][\A i \in 1..Len(inflight) :
          (HandlerFinished(i) /\ inflight[i].found # None) =>
              \A k \in 1..(i - 1) :
                  (inflight[k].file = inflight[i].file /\ inflight[k].found # None) =>
                      inflight[k].found = inflight[i].found]_vars

---------------------------------------------------------------------------
(* C27 *)

\* The notifications about skills.
SkillEvents == {"skill:discovered", "skill:updated", "skill:removed"}

\* C27: once close() has resolved and no watcher is held, no watch handler
\* changes the registry or emits a notification about a skill, the handlers
\* that were awaiting a parse when close() was called included.
C27_NoHandlerActsAfterClose ==
    [][\A i \in 1..Len(inflight) :
          (HandlerFinished(i) /\ ~watcher /\ PreviousCall = "close") =>
              /\ skills' = skills
              /\ \A n \in 1..Len(emitted') : emitted'[n].type \notin SkillEvents]_vars

---------------------------------------------------------------------------
(* C28 *)

\* C28: at most one watcher exists at any time, it is the one the engine
\* holds, and a file change is queued for the handlers once; watch() called
\* while a watcher is held changes nothing.
C28_WatchTwiceIsOneWatcher ==
    /\ [](/\ watchers = (IF watcher THEN 1 ELSE 0)
          /\ Len(events) + Len(inflight) <= diskOps)
    /\ [][(lastCall' # None /\ lastCall'[1].call = "watch" /\ lastCall'[1].held
           /\ lastCall' # lastCall) =>
              UNCHANGED <<skills, watcher, watchers, events, inflight, disk>>]_vars

\* watch() was called while watching, and the file change made since is
\* queued once.
C28_Witness ==
    /\ lastCall # None
    /\ lastCall[1].call = "watch" /\ lastCall[1].held
    /\ diskOps = 1
    /\ Len(events) = 1

---------------------------------------------------------------------------
(* C29 *)

\* C29: close() leaves no watcher held, whatever the state it is called in,
\* and never changes the registry; called when no watcher is held (watch()
\* never called, or closed already) it changes nothing at all.
C29_CloseIsSafeAndIdempotent ==
    [][(lastCall' # None /\ lastCall'[1].call = "close" /\ lastCall' # lastCall) =>
          /\ ~watcher' /\ watchers' = 0
          /\ skills' = skills
          /\ ~lastCall'[1].held =>
                UNCHANGED <<skills, watcher, watchers, events, inflight, disk>>]_vars

\* close() was called right after a close(), with a handler still awaiting
\* its parse.
C29_Witness ==
    /\ lastCall # None
    /\ lastCall[1].call = "close" /\ lastCall[1].previous = "close"
    /\ ~lastCall[1].held
    /\ inflight # <<>>
    /\ skills # <<>>

---------------------------------------------------------------------------
(* C30 *)

\* The search path is absent from the file system, or is not a directory.
NotADirectory(searchPath) == roots[searchPath] \in {"missing", "file"}

\* The search paths without those that are absent or not directories.
PathsThatAreDirectories == SelectSeq(SearchPaths, LAMBDA p : ~NotADirectory(p))

RECURSIVE CandidatesOf(_, _)
\* The candidate manifests of the given search paths from the r-th on.
CandidatesOf(paths, r) ==
    IF r > Len(paths) THEN <<>>
    ELSE ManifestsUnder(paths[r], 1) \o CandidatesOf(paths, r + 1)

RECURSIVE Registered(_, _, _)
\* What a scan from registry reg registers from the candidates i, i+1, ...
\* of cands, each under a directory.
Registered(reg, cands, i) ==
    IF i > Len(cands) THEN reg
    ELSE LET found == IF disk[cands[i]] = None \/ ReaddirThrows(SearchPathOf(cands[i]))
                      THEN None
                      ELSE discoverSkillFromPath(cands[i])
         IN  Registered(IF found # None /\ found[1].name # ""
                        THEN MapSet(reg, found[1].name, found[1]) ELSE reg,
                        cands, i + 1)

\* C30: when scan() comes to a search path that does not exist or is not a
\* directory it emits nothing, registers nothing and goes on with the next
\* search path (or resolves after the last); and when scan() resolves the
\* registry is what a scan of the other search paths alone registers.
C30_MissingRootIsSkipped ==
    [][scanning # None =>
          LET i == scanning[1]
              searchPath == SearchPathOf(Candidates[i])
          IN  /\ NotADirectory(searchPath) =>
                    /\ emitted' = <<>>
                    /\ skills' = skills
                    /\ scanning' = AfterSearchPath(i)
              /\ scanning' = None =>
                    skills' = Registered(<<>>, CandidatesOf(PathsThatAreDirectories, 1), 1)
    ]_vars

\* A scan has resolved where the first search path does not exist and the
\* second is a directory, whose skill custom/b is registered.
C30_Witness ==
    /\ scanning = None /\ quietScans >= 1
    /\ roots[<<"project">>] = "missing"
    /\ roots[<<"custom">>] = "dir"
    /\ \E i \in 1..Len(skills) :
          skills[i].value.skillMdPath = <<"custom", "b", "SKILL.md">>

---------------------------------------------------------------------------
(* C31 *)

\* The capital of a letter, and any other character as it is.
Capital(c) ==
    CASE c = "f" -> "F"
      [] c = "o" -> "O"
      [] c = "d" -> "D"
      [] c = "b" -> "B"
      [] c = "a" -> "A"
      [] c = "r" -> "R"
      [] c = "z" -> "Z"
      [] OTHER -> c

\* part occurs in text at some position, letters compared without regard to
\* their case.
ContainsIgnoringCase(text, part) ==
    \E k \in 0..(Len(text) - Len(part)) :
        \A j \in 1..Len(part) : Capital(text[k + j]) = Capital(part[j])

\* The skill's name or description contains the query.
MatchesQuery(sk, query) ==
    \/ ContainsIgnoringCase(TextChars(sk.name), TextChars(query))
    \/ ContainsIgnoringCase(TextChars(sk.description), TextChars(query))

\* C31: searchSkills(q) returns exactly the registered skills whose name or
\* description contains q, letters compared case-insensitively; every skill
\* returned is one getAllSkills() returns, and nothing is returned when no
\* skill matches.
C31_SearchIsSubstringMatch ==
    \A c \in SeqSet(lastCall) :
        c.call = "search_skills" =>
            /\ c.found = SelectSeq(getAllSkills, LAMBDA sk : MatchesQuery(sk, c.arg[1]))
            /\ SeqSet(c.found) \subseteq SeqSet(getAllSkills)
            /\ (\A sk \in SeqSet(getAllSkills) : ~MatchesQuery(sk, c.arg[1])) => c.found = <<>>

\* A query in capitals found the skill named in small letters and the one
\* named in capitals, and not the third skill.
C31_Witness ==
    /\ lastCall # None
    /\ lastCall[1].call = "search_skills" /\ lastCall[1].arg = Some("FO")
    /\ {sk.name : sk \in SeqSet(lastCall[1].found)} = {"foo", "FO"}
    /\ Len(skills) = 3

---------------------------------------------------------------------------
(* C32 *)

\* The outline entries before entry i whose heading has the same text.
EarlierSameText(i) ==
    {j \in 1..(i - 1) :
        Document.body[Document.toc[j].line] = Document.body[Document.toc[i].line]}

\* x-k for a slug x and k >= 1.  The slugs the outlines of the model hold are
\* those of a, b, a-1 and the empty slug; x-k for any other x is none of them.
Numbered(x, k) == IF x \in {"a", "b", "a-1", ""} THEN Slug(x, k) ELSE "none"

\* The slugs of the outline are pairwise distinct.
SlugsAreDistinct ==
    \A i, j \in 1..Len(Document.toc) :
        i # j => Document.toc[i].slug # Document.toc[j].slug

\* The k-th repetition of a heading text gets x-k, where x is the slug of
\* the first heading with that text.
RepetitionsAreNumbered ==
    \A i \in 1..Len(Document.toc) :
        EarlierSameText(i) # {} =>
            LET first == CHOOSE j \in EarlierSameText(i) :
                             \A e \in EarlierSameText(i) : j <= e
            IN  Document.toc[i].slug =
                    Numbered(Document.toc[first].slug, Cardinality(EarlierSameText(i)))

\* The last read, of the section URI built from an outline slug, returned
\* the section of the heading that has this slug.
SlugSelectsItsHeading ==
    \A read \in SeqSet(lastRead) :
        InOutline(read.uri.pieces[3]) =>
            /\ read.ok
            /\ read.text = Some(Trim(SectionLines(Matched(read.uri.pieces[3]))))

\* C32: in every parsed document the slugs of the outline are pairwise
\* distinct, the k-th repetition of a heading text whose first slug is x has
\* slug x-k, and reading the section URI built from a slug of the outline
\* returns the section of the heading with that slug.  Stated of the
\* documents a section has been asked of.
C32_SlugsDistinctAndNumbered ==
    lastRead # None =>
        /\ SlugsAreDistinct
        /\ RepetitionsAreNumbered
        /\ SlugSelectsItsHeading

---------------------------------------------------------------------------
(* C33 *)

\* watch() has been called once and close() never: every deletion made while
\* a handler was awaiting its parse has queued an unlink event.
WatchedSinceTheOnlyCall ==
    /\ watcher
    /\ lastCall # None
    /\ lastCall[1].call = "watch" /\ lastCall[1].previous = "none"

\* An unlink event of the manifest is queued and not handled yet.
UnlinkPending(filePath) ==
    \E n \in 1..Len(events) : events[n] = [kind |-> "unlink", file |-> filePath]

\* The registry holds a record registered from the manifest.
RecordOf(reg, filePath) ==
    \E n \in 1..Len(reg) : reg[n].value.skillMdPath = filePath

\* C33: when an add or change handler finishes after the manifest it parsed
\* has been deleted and the unlink has been handled, it does not insert a
\* record for that manifest: the registry, which held no record of the
\* deleted manifest, holds none afterwards.
C33_LateHandlerNeverReinserts ==
    [][\A i \in 1..Len(inflight) :
          (/\ HandlerFinished(i)
           /\ WatchedSinceTheOnlyCall
           /\ disk[inflight[i].file] = None
           /\ ~UnlinkPending(inflight[i].file)
           /\ ~RecordOf(skills, inflight[i].file))
          => ~RecordOf(skills', inflight[i].file)]_vars

---------------------------------------------------------------------------
(* C34 *)

\* C34: at most one record of the registry has a given manifest path,
\* whatever scans and add, change and unlink events have been handled.
C34_OneRecordPerManifest ==
    \A i, j \in 1..Len(skills) :
        skills[i].value.skillMdPath = skills[j].value.skillMdPath => i = j

---------------------------------------------------------------------------
(* C35 *)

\* C35: once an executeScript invocation has returned its result (the child
\* closed, or failed to spawn), neither its timeout timer nor its 5-second
\* force-kill timer is pending: both have fired before or are cancelled, so
\* none fires afterwards.
C35_NoTimerOutlivesTheResult ==
    \A r \in RunIds :
        runs[r].result # None =>
            /\ runs[r].timer # "armed"
            /\ runs[r].forceTimer # "armed"

---------------------------------------------------------------------------
(* C36 *)

\* This step is scan() being called, or scan() going from one await to the
\* next.
ScanStepped == scanning' # scanning

\* C36: a step of scan() only inserts or overwrites records: every name
\* registered before the step is registered after it, under a record that
\* has a parsed document, and the number of records does not go down.
C36_ScanOnlyAddsOrOverwrites ==
    [][ScanStepped =>
          /\ \A i \in 1..Len(skills) :
                /\ MapHas(skills', skills[i].key)
                /\ MapGet(skills', skills[i].key)[1].parsed # None
          /\ Len(skills') >= Len(skills)]_vars

\* A second scan is under way over a registry of two skills registered
\* before it started, and its last step has overwritten a record.
C36_Witness ==
    /\ scanning # None /\ scanning[1] > 1
    /\ quietScans >= 1
    /\ Len(skills) >= 2
    /\ \E n \in 1..Len(emitted) : emitted[n].type = "skill:discovered"

---------------------------------------------------------------------------
(* C37 *)

\* What each resource listed for a skill stands for, in the order
\* listResources lists them: the skill's name, the type and the parameter.
ListedOf(skill) ==
    LET name == skill.name
        parsed == skill.parsed[1]
        of(type, param) == [name |-> name, type |-> type, param |-> param]
        files(type) == [i \in 1..Len(parsed.files[type]) |->
                           of(type, <<parsed.files[type][i]>>)]
    IN  <<of("content", <<>>), of("manifest", <<>>)>> \o
        IF skill.parsed = None THEN <<>>
        ELSE [i \in 1..Len(parsed.toc) |-> of("section", <<parsed.toc[i].slug>>)]
             \o [i \in 1..Len(parsed.codeBlocks) |-> of("code", <<IndexText(i - 1)>>)]
             \o files("references") \o files("scripts") \o files("assets")

RECURSIVE ListedFrom(_, _)
ListedFrom(all, i) ==
    IF i > Len(all) THEN <<>> ELSE ListedOf(all[i]) \o ListedFrom(all, i + 1)

\* C37: every URI listResources returns for a registered skill is parsed by
\* parseSkillUri into that skill's name with the type and the parameter it
\* was listed for (nothing for content and manifest, the slug of a section,
\* the index of a code block, the name of a file), and the skill of that
\* name is registered.
C37_ListedUrisParseBack ==
    \A c \in SeqSet(lastCall) :
        c.call = "listResources" =>
            LET listed == Tail(c.result)
                meant == ListedFrom(getAllSkills, 1)
            IN  /\ Len(listed) = Len(meant)
                /\ \A n \in 1..Len(meant) :
                      /\ parseSkillUri(listed[n]) = Some(meant[n])
                      /\ getSkill(meant[n].name) # None

---------------------------------------------------------------------------
(* C38 *)

\* C38: every entry of the registry is stored under the name of its own
\* record, the record's path is the directory of its manifest, and its parsed
\* document is there with that name in its frontmatter.
C38_EntriesAreWellFormed ==
    \A i \in 1..Len(skills) :
        LET name == skills[i].key
            record == skills[i].value
        IN  /\ record.name = name
            /\ record.path = SubSeq(record.skillMdPath, 1, Len(record.skillMdPath) - 1)
            /\ record.parsed # None
            /\ record.parsed[1].frontmatter.name = name

\* The registry holds two skills, the one overwritten last by a watch
\* handler, with nothing left in flight.
C38_Witness ==
    /\ Len(skills) >= 2
    /\ inflight = <<>>
    /\ \E n \in 1..Len(emitted) : emitted[n].type = "skill:updated"

====
